---------------------------- MODULE Spec2Model ----------------------------
(***************************************************************************)
(* A model of the styled-text engine of friedelschoen/sdp: the incremental *)
(* markup parser (MarkupBuilder), the word segmenter (MarkupText.words)    *)
(* and the greedy line wrapper (MarkupText.wrapLines) of src/markup.go.    *)
(*                                                                         *)
(* A text is a sequence of one-character strings.  A style state is the    *)
(* set of the attribute bits that are set in the MarkupAttribute integer.  *)
(***************************************************************************)
EXTENDS Integers, Sequences, FiniteSets, TLC

VARIABLES
    \* ---- the parser (MarkupBuilder) and its driver
    b,          \* the MarkupBuilder: [out, buf, state]
    content,    \* the Feed local `content`: the part of the chunk not yet consumed
    pc,         \* "idle" between calls, "feed" inside the loop of Feed
    input,      \* the whole text the driver is going to feed, chunk by chunk
    pending,    \* the part of input not yet handed to Feed
    fed,        \* the chunks handed to Feed since construction or the last Reset
    entry,      \* the builder as it was when the current/last Feed was entered
    prev,       \* the loop state before the last iteration of the Feed loop
    ret,        \* the value returned by the last Text() call since the last Feed/Reset
    \* ---- the segmenter and line wrapper
    m,          \* the MarkupText being wrapped
    box,        \* bounds.Dx(), whole pixels
    size,       \* the font size handed to wrapLines
    atoms,      \* the atoms of m.words() not yet consumed by the wrapper's loop
    width,      \* local width of wrapLines (fixed.Int26_6, 1/64 pixel)
    line,       \* local line of wrapLines
    yielded,    \* the (width, line) pairs yielded so far
    wpc,        \* "loop" inside the range loop, "done" after the generator returned
    kept,       \* history: the text of the atoms consumed, less the whitespace
                \* atoms dropped at a soft break
    calls,      \* the number of times the generator has been invoked
    seen,       \* history: what the invocation before this one yielded, and
                \* whether it ran to its end: [items, done]
    \* ---- the word segmenter, run on its own
    sm,         \* the MarkupText whose words() are ranged over
    si,         \* the index of the next part of the range loop of words()
    segs,       \* the atoms yielded so far, grouped by the part they come from
    spc,        \* "loop" inside the range loop, "done" after the generator returned
    \* ---- MarkupText.Draw
    dm,         \* the MarkupText that is drawn
    dbox,       \* bounds after cfg.Margin.Apply: [min, dx, dy], whole pixels
    cfg,        \* the PresConfig: [Align, VAlign, FontSize]
    dpc,        \* "search", "place", "lines" or "done": the position in Draw
    cand,       \* the loop variable i of the size search
    tested,     \* history: the candidate sizes the search has tested, in order
    dsize,      \* local size of Draw
    totalH,     \* local totalHeight of Draw (fixed.Int26_6)
    yOffset,    \* local yOffset of Draw (fixed.Int26_6)
    lines,      \* the items of the second wrapLines not yet ranged over
    lineNo,     \* history: the number of items the render loop has ranged over
    rects,      \* the rectangles drawn for underline and strikethrough, in order
    drawn,      \* history: the parts drawn, with the pen before and after each
    closes,     \* history: the calls of closeRun, with the run and the pen
    ends,       \* history: the two runs as they are when a line has been drawn
    glyphs,     \* history: the glyphs drawn, with the pen before and after each
    \* ---- positionImage
    isrc,       \* the rectangle src: [min, max]
    ibox,       \* the rectangle box
    ialign,     \* the Alignment
    ivalign,    \* the VerticalAlignment
    irect,      \* the rectangle returned
    ipc,        \* "call" before the call, "done" after it has returned
    \* ---- ParsePresentation and the event loop of main (cmd/slab-present)
    deck,       \* history: the lines of the file that is read
    unread,     \* the lines the scanner has not yet returned
    markup,     \* local markup of ParsePresentation: the MarkupBuilder
    slides,     \* local slides: the contents of the slide that is being built
    globalconf, \* local globalconf
    slideconf,  \* local slideconf
    pres,       \* pres.Slides: a sequence of [Conf, Content]
    ppc,        \* "scan" in ParsePresentation, "exit" after os.Exit, "loop" in
                \* the event loop of main, "panic" after a panic
    index,      \* local index of main
    running,    \* local running of main
    fullscreen, \* local fullscreen of main
    ev,         \* history: the event the last iteration of the loop has handled
    indexWas,   \* history: index as it was when that event was received
    shown       \* history: the indices of the slides that iteration has drawn

pvars == <<b, content, pc, input, pending, fed, entry, prev, ret>>
wvars == <<m, box, size, atoms, width, line, yielded, wpc, kept, calls, seen>>
svars == <<sm, si, segs, spc>>
dvars == <<dm, dbox, cfg, dpc, cand, tested, dsize, totalH, yOffset, lines,
           lineNo, rects, drawn, closes, ends, glyphs>>
ivars == <<isrc, ibox, ialign, ivalign, irect, ipc>>
qvars == <<deck, unread, markup, slides, globalconf, slideconf, pres, ppc,
           index, running, fullscreen, ev, indexWas, shown>>
vars  == <<b, content, pc, input, pending, fed, entry, prev, ret,
           m, box, size, atoms, width, line, yielded, wpc, kept, calls, seen,
           sm, si, segs, spc,
           dm, dbox, cfg, dpc, cand, tested, dsize, totalH, yOffset, lines,
           lineNo, rects, drawn, closes, ends, glyphs,
           isrc, ibox, ialign, ivalign, irect, ipc,
           deck, unread, markup, slides, globalconf, slideconf, pres, ppc,
           index, running, fullscreen, ev, indexWas, shown>>

-----------------------------------------------------------------------------
(* Bounds of the model *)

\* longest freely enumerated parser input
MaxLen == 3
\* longest freely enumerated text handed to the wrapper (all runs together)
MaxText == 3
\* largest font size handed to the wrapper
MaxSize == 2
\* widest box handed to the wrapper, in pixels
MaxBox == 3
\* longest freely enumerated text handed to Draw (all runs together)
MaxDrawText == 2
\* the width of the wide boxes and the height of the tall boxes handed to Draw
BigBox == 100
\* the largest width and height of the rectangles handed to positionImage
MaxImg == 4
\* the largest number of lines of a file handed to ParsePresentation
MaxLines == 3

-----------------------------------------------------------------------------
(* Characters and attributes *)

BS == "\\"
NL == "\n"
SP == " "
TAB == "\t"
\* the backquote character (U+0060), the Code marker
BT == "bq"

Bold          == "Bold"
Italic        == "Italic"
Underline     == "Underline"
Strikethrough == "Strikethrough"
Code          == "Code"
BigText       == "BigText"

MarkupAttribute == {Bold, Italic, Underline, Strikethrough, Code, BigText}

\* state ^= flag
Xor(state, flag) == (state \ {flag}) \cup ({flag} \ state)

\* strings.HasPrefix
HasPrefix(s, p) == Len(s) >= Len(p) /\ SubSeq(s, 1, Len(p)) = p

\* content[n:]
Drop(s, n) == SubSeq(s, n + 1, Len(s))

\* a trim that removes one leading newline only
TrimLeftOnce(s) == IF s # <<>> /\ Head(s) = NL THEN Tail(s) ELSE s

\* strings.TrimLeft(content, "\n")
RECURSIVE TrimLeft(_)
TrimLeft(s) == IF s # <<>> /\ Head(s) = NL THEN TrimLeft(Tail(s)) ELSE s

\* MarkupText.String: the texts of all parts, concatenated
RECURSIVE String(_)
String(mt) == IF mt = <<>> THEN <<>> ELSE Head(mt).Text \o String(Tail(mt))


-----------------------------------------------------------------------------
(* The markup parser: MarkupBuilder *)

\* the zero MarkupBuilder (also what Reset leaves)
NewBuilder == [out |-> <<>>, buf |-> <<>>, state |-> {}]

\* emit without the test of the buffer
emitAlways(bb) ==
    [bb EXCEPT !.out = Append(@, [Attr |-> bb.state, Text |-> bb.buf]),
               !.buf = <<>>]

\* emit that appends the run without the style flags
emitPlain(bb) ==
    IF Len(bb.buf) = 0
    THEN bb
    ELSE [bb EXCEPT !.out = Append(@, [Attr |-> {}, Text |-> bb.buf]),
                    !.buf = <<>>]

\* MarkupBuilder.emit: append the buffered text as a run, unless it is empty
emit(bb) ==
    IF Len(bb.buf) = 0
    THEN bb
    ELSE [bb EXCEPT !.out = Append(@, [Attr |-> bb.state, Text |-> bb.buf]),
                    !.buf = <<>>]

\* Dirty without the test of the style state
DirtyNoState(bb) == Len(bb.out) # 0 \/ Len(bb.buf) # 0

\* MarkupBuilder.Dirty
Dirty(bb) == Len(bb.out) # 0 \/ Len(bb.buf) # 0 \/ bb.state # {}

\* the escape cases with the one-character escapes tested first
EscapeShortFirst(bb, c) ==
    LET nocode == Code \notin bb.state IN
    IF nocode /\ HasPrefix(c, <<BS, "*">>) THEN [lit |-> <<"*">>, n |-> 2]
    ELSE IF nocode /\ HasPrefix(c, <<BS, "_">>) THEN [lit |-> <<"_">>, n |-> 2]
    ELSE IF HasPrefix(c, <<BS, BT>>) THEN [lit |-> <<BT>>, n |-> 2]
    ELSE IF HasPrefix(c, <<BS, BS>>) THEN [lit |-> <<BS>>, n |-> 2]
    ELSE IF nocode /\ HasPrefix(c, <<BS, "*", "*">>) THEN [lit |-> <<"*", "*">>, n |-> 3]
    ELSE IF nocode /\ HasPrefix(c, <<BS, "_", "_">>) THEN [lit |-> <<"_", "_">>, n |-> 3]
    ELSE IF nocode /\ HasPrefix(c, <<BS, "~", "~">>) THEN [lit |-> <<"~", "~">>, n |-> 3]
    ELSE IF nocode /\ HasPrefix(c, <<BS, "=", "=">>) THEN [lit |-> <<"=", "=">>, n |-> 3]
    ELSE [lit |-> <<>>, n |-> 0]

\* the escape cases without the case of backslash-star
EscapeNoStar(bb, c) ==
    LET nocode == Code \notin bb.state IN
    IF nocode /\ HasPrefix(c, <<BS, "*", "*">>) THEN [lit |-> <<"*", "*">>, n |-> 3]
    ELSE IF nocode /\ HasPrefix(c, <<BS, "_", "_">>) THEN [lit |-> <<"_", "_">>, n |-> 3]
    ELSE IF nocode /\ HasPrefix(c, <<BS, "~", "~">>) THEN [lit |-> <<"~", "~">>, n |-> 3]
    ELSE IF nocode /\ HasPrefix(c, <<BS, "=", "=">>) THEN [lit |-> <<"=", "=">>, n |-> 3]
    ELSE IF nocode /\ HasPrefix(c, <<BS, "_">>) THEN [lit |-> <<"_">>, n |-> 2]
    ELSE IF HasPrefix(c, <<BS, BT>>) THEN [lit |-> <<BT>>, n |-> 2]
    ELSE IF HasPrefix(c, <<BS, BS>>) THEN [lit |-> <<BS>>, n |-> 2]
    ELSE [lit |-> <<>>, n |-> 0]

\* The escape cases of the Feed switch, in the order of the source: the literal
\* characters emitted and the number of input characters consumed (n = 0 when
\* no escape case applies).
Escape(bb, c) ==
    LET nocode == Code \notin bb.state IN
    IF nocode /\ HasPrefix(c, <<BS, "*", "*">>) THEN [lit |-> <<"*", "*">>, n |-> 3]
    ELSE IF nocode /\ HasPrefix(c, <<BS, "_", "_">>) THEN [lit |-> <<"_", "_">>, n |-> 3]
    ELSE IF nocode /\ HasPrefix(c, <<BS, "~", "~">>) THEN [lit |-> <<"~", "~">>, n |-> 3]
    ELSE IF nocode /\ HasPrefix(c, <<BS, "=", "=">>) THEN [lit |-> <<"=", "=">>, n |-> 3]
    ELSE IF nocode /\ HasPrefix(c, <<BS, "*">>) THEN [lit |-> <<"*">>, n |-> 2]
    ELSE IF nocode /\ HasPrefix(c, <<BS, "_">>) THEN [lit |-> <<"_">>, n |-> 2]
    ELSE IF HasPrefix(c, <<BS, BT>>) THEN [lit |-> <<BT>>, n |-> 2]
    ELSE IF HasPrefix(c, <<BS, BS>>) THEN [lit |-> <<BS>>, n |-> 2]
    ELSE [lit |-> <<>>, n |-> 0]

\* the marker cases without the test of the Code flag
MarkerInCode(bb, c) ==
    IF HasPrefix(c, <<"*", "*">>) THEN [flag |-> Bold, n |-> 2]
    ELSE IF HasPrefix(c, <<"_", "_">>) THEN [flag |-> Underline, n |-> 2]
    ELSE IF HasPrefix(c, <<"~", "~">>) THEN [flag |-> Strikethrough, n |-> 2]
    ELSE IF HasPrefix(c, <<"=", "=">>) THEN [flag |-> BigText, n |-> 2]
    ELSE IF HasPrefix(c, <<"*">>) THEN [flag |-> Italic, n |-> 1]
    ELSE IF HasPrefix(c, <<"_">>) THEN [flag |-> Italic, n |-> 1]
    ELSE IF HasPrefix(c, <<BT>>) THEN [flag |-> Code, n |-> 1]
    ELSE [flag |-> Code, n |-> 0]

\* the marker cases with the one-character markers tested first
MarkerShortFirst(bb, c) ==
    LET nocode == Code \notin bb.state IN
    IF nocode /\ HasPrefix(c, <<"*">>) THEN [flag |-> Italic, n |-> 1]
    ELSE IF nocode /\ HasPrefix(c, <<"_">>) THEN [flag |-> Italic, n |-> 1]
    ELSE IF nocode /\ HasPrefix(c, <<"*", "*">>) THEN [flag |-> Bold, n |-> 2]
    ELSE IF nocode /\ HasPrefix(c, <<"_", "_">>) THEN [flag |-> Underline, n |-> 2]
    ELSE IF nocode /\ HasPrefix(c, <<"~", "~">>) THEN [flag |-> Strikethrough, n |-> 2]
    ELSE IF nocode /\ HasPrefix(c, <<"=", "=">>) THEN [flag |-> BigText, n |-> 2]
    ELSE IF HasPrefix(c, <<BT>>) THEN [flag |-> Code, n |-> 1]
    ELSE [flag |-> Code, n |-> 0]

\* The marker cases of the Feed switch, in the order of the source: the flag
\* toggled and the number of input characters consumed (n = 0 when no marker
\* case applies).
Marker(bb, c) ==
    LET nocode == Code \notin bb.state IN
    IF nocode /\ HasPrefix(c, <<"*", "*">>) THEN [flag |-> Bold, n |-> 2]
    ELSE IF nocode /\ HasPrefix(c, <<"_", "_">>) THEN [flag |-> Underline, n |-> 2]
    ELSE IF nocode /\ HasPrefix(c, <<"~", "~">>) THEN [flag |-> Strikethrough, n |-> 2]
    ELSE IF nocode /\ HasPrefix(c, <<"=", "=">>) THEN [flag |-> BigText, n |-> 2]
    ELSE IF nocode /\ HasPrefix(c, <<"*">>) THEN [flag |-> Italic, n |-> 1]
    ELSE IF nocode /\ HasPrefix(c, <<"_">>) THEN [flag |-> Italic, n |-> 1]
    ELSE IF HasPrefix(c, <<BT>>) THEN [flag |-> Code, n |-> 1]
    ELSE [flag |-> Code, n |-> 0]

\* an iteration whose marker cases toggle the flag and leave the marker in
\* the content
FeedCaseMarkerStays(bb, c) ==
    LET e  == Escape(bb, c)
        mk == Marker(bb, c)
    IN  IF e.n > 0
        THEN [b |-> [bb EXCEPT !.buf = @ \o e.lit], content |-> Drop(c, e.n)]
        ELSE IF mk.n > 0
        THEN [b |-> [emit(bb) EXCEPT !.state = Xor(@, mk.flag)], content |-> c]
        ELSE [b |-> [bb EXCEPT !.buf = Append(@, Head(c))], content |-> Tail(c)]

\* One iteration of the Feed loop on a non-empty content: the new builder and
\* the content that is left.
FeedCase(bb, c) ==
    LET e  == Escape(bb, c)
        mk == Marker(bb, c)
    IN  IF e.n > 0
        THEN [b |-> [bb EXCEPT !.buf = @ \o e.lit], content |-> Drop(c, e.n)]
        ELSE IF mk.n > 0
        THEN [b |-> [emit(bb) EXCEPT !.state = Xor(@, mk.flag)],
              content |-> Drop(c, mk.n)]
        ELSE [b |-> [bb EXCEPT !.buf = Append(@, Head(c))], content |-> Tail(c)]

\* the Feed loop, run to its end, and the emit that follows it
RECURSIVE FeedLoop(_, _)
FeedLoop(bb, c) ==
    IF Len(c) = 0
    THEN emit(bb)
    ELSE LET r == FeedCase(bb, c) IN FeedLoop(r.b, r.content)

\* MarkupBuilder.Feed as a function of the builder and the chunk
FeedAll(bb, chunk) ==
    FeedLoop(bb, IF ~Dirty(bb) THEN TrimLeft(chunk) ELSE chunk)

\* ---- the driver's inputs

Alphabet == {"a", NL, "*", "_", "~", BT, "@", BS}

Strs(S, n) == UNION {[1..k -> S] : k \in 0..n}

\* the inputs the documentation of the parser names, and their kin
Scenarios ==
    { <<"*", "*", "a", "b", "*", "*", "c", "d">>,
      <<BS, "*", BS, "*", "a", BS, "*", BS, "*">>,
      <<"a", SP, BT, "b", SP, "c", BT, SP, "d">>,
      <<"@", "a", SP, "b", "@">>,
      <<"=", "=", "a", SP, "b", "=", "=">>,
      <<BS, "=", "a">>,
      <<BS, "=", "=", "a">>,
      <<BT, BS, "*", BT>>,
      <<"*", "*", "*", "*", NL, "a">>,
      <<"*", "*", "a", "*", "*", "~">>,
      <<"a", "*", "*", "*", "*", "b">>,
      <<BT, "=", "=", BT>> }

Inputs == Strs(Alphabet, MaxLen) \cup Scenarios

NoPrev == [b |-> NewBuilder, content |-> <<>>]
NoRet  == [valid |-> FALSE, out |-> <<>>]

RECURSIVE Concat(_)
Concat(chunks) == IF chunks = <<>> THEN <<>> ELSE Head(chunks) \o Concat(Tail(chunks))

ParseInit ==
    /\ input \in Inputs
    /\ pending = input
    /\ b = NewBuilder
    /\ content = <<>>
    /\ pc = "idle"
    /\ fed = <<>>
    /\ entry = NewBuilder
    /\ prev = NoPrev
    /\ ret = NoRet

\* Feed is entered with the next chunk of the input: the leading newlines are
\* trimmed when the builder is not dirty
FeedBegin ==
    /\ pc = "idle"
    /\ pending # <<>>
    /\ \E k \in 1..Len(pending) :
          LET chunk == SubSeq(pending, 1, k) IN
          /\ content' = IF ~Dirty(b) THEN TrimLeft(chunk) ELSE chunk
          /\ fed' = Append(fed, chunk)
          /\ pending' = Drop(pending, k)
    /\ entry' = b
    /\ prev' = NoPrev
    /\ ret' = NoRet
    /\ pc' = "feed"
    /\ UNCHANGED <<b, input>>

\* one iteration of the Feed loop
FeedIter ==
    /\ pc = "feed"
    /\ Len(content) > 0
    /\ LET r == FeedCase(b, content) IN
          /\ b' = r.b
          /\ content' = r.content
    /\ prev' = [b |-> b, content |-> content]
    /\ UNCHANGED <<pc, input, pending, fed, entry, ret>>

\* the loop has consumed the chunk: the emit that ends Feed
FeedEnd ==
    /\ pc = "feed"
    /\ Len(content) = 0
    /\ b' = emit(b)
    /\ pc' = "idle"
    /\ UNCHANGED <<content, input, pending, fed, entry, prev, ret>>

\* MarkupBuilder.Text
Text ==
    /\ pc = "idle"
    /\ b' = emit(b)
    /\ ret' = [valid |-> TRUE, out |-> b'.out]
    /\ UNCHANGED <<content, pc, input, pending, fed, entry, prev>>

\* MarkupBuilder.Reset
Reset ==
    /\ pc = "idle"
    /\ b' = NewBuilder
    /\ fed' = <<>>
    /\ entry' = NewBuilder
    /\ prev' = NoPrev
    /\ ret' = NoRet
    /\ UNCHANGED <<content, pc, input, pending>>

-----------------------------------------------------------------------------
(* The glyph metrics provider (golang.org/x/image/font), consumed only.     *)
(* Widths are fixed.Int26_6 values: integers counting 1/64 pixel.           *)

\* fixed.Int26_6.Ceil: the least whole number of pixels not below x
Ceil(x) == (x + 63) \div 64

\* cfg.TabSize of defaultConf
TabSize == 4

\* MarkupAttribute.face: the face of a style at a size, here the size of the
\* face in tenths of a point; BigText scales it by cfg.BigText (1.2)
face(a, sz) == IF BigText \in a THEN sz * 12 ELSE sz * 10

\* font.Face.GlyphAdvance: the advance of a rune grows linearly with the size
\* of the face; a whitespace glyph is half as wide as a letter
GlyphAdvance(f, r) == IF r \in {SP, TAB} THEN 2 * f ELSE 4 * f

\* font.Face.Kern: two letters in a row are pulled together a little
Kern(f, r0, r1) == IF r0 = "a" /\ r1 = "a" THEN 0 - (f \div 5) ELSE 0

\* MarkupAttribute.measureText: the advances of the runes of s, the kerning
\* between neighbours, a tab counting as TabSize spaces
RECURSIVE measureFrom(_, _, _)
measureFrom(f, s, i) ==
    IF i > Len(s) THEN 0
    ELSE (IF i > 1 THEN Kern(f, s[i - 1], s[i]) ELSE 0)
         + (IF s[i] = TAB THEN GlyphAdvance(f, SP) * TabSize
                          ELSE GlyphAdvance(f, s[i]))
         + measureFrom(f, s, i + 1)

measureText(a, s, sz) == measureFrom(face(a, sz), s, 1)

-----------------------------------------------------------------------------
(* The word segmenter: MarkupText.words *)

\* unicode.IsSpace, on the characters of the model
IsSpace(r) == r \in {SP, NL, TAB}

\* only BigText keeps a run whole
OpaqueBigOnly(a) == a \cap {BigText} # {}

\* the styles whose runs words() does not split
Opaque(a) == a \cap {Code, BigText} # {}

\* a span that ends at every space, also between two spaces
RECURSIVE spanLenSpace(_, _)
spanLenSpace(s, i) ==
    IF i < Len(s) /\ ~IsSpace(s[i + 1]) /\ ~IsSpace(s[1])
    THEN spanLenSpace(s, i + 1) ELSE i

\* the length of the longest prefix of s whose characters are all spaces or
\* all non-spaces, like the first character
RECURSIVE spanLen(_, _)
spanLen(s, i) ==
    IF i < Len(s) /\ IsSpace(s[i + 1]) = IsSpace(s[1]) THEN spanLen(s, i + 1) ELSE i

\* the atoms of one part that is split: maximal spans of spaces and non-spaces
RECURSIVE splitWords(_, _)
splitWords(a, s) ==
    IF Len(s) = 0 THEN <<>>
    ELSE LET n == spanLen(s, 1) IN
         <<[attr |-> a, word |-> SubSeq(s, 1, n)]>> \o splitWords(a, Drop(s, n))

\* the atoms words() yields for one part
partWords(part) ==
    IF Opaque(part.Attr)
    THEN <<[attr |-> part.Attr, word |-> part.Text]>>
    ELSE splitWords(part.Attr, part.Text)

\* MarkupText.words: the (attribute, runes) pairs yielded, in order
RECURSIVE words(_)
words(mt) == IF mt = <<>> THEN <<>> ELSE partWords(Head(mt)) \o words(Tail(mt))

\* ---- the segmenter run on its own, part by part

\* NewBuilder, Feed(s), Text(): the runs a text parses to
Parse(s) == emit(FeedAll(NewBuilder, s)).out

SegAlphabet == {"a", SP, NL}
SegAttrs == {{}, {Bold}, {Code}, {BigText}}

\* every MarkupText of non-empty parts whose texts have n characters together
RECURSIVE SegTexts(_)
SegTexts(n) ==
    IF n = 0 THEN {<<>>}
    ELSE UNION { { <<[Attr |-> a, Text |-> t]>> \o rest :
                     a \in SegAttrs, t \in [1..k -> SegAlphabet],
                     rest \in SegTexts(n - k) } : k \in 1..n }

SegInit ==
    /\ sm \in UNION {SegTexts(n) : n \in 0..MaxText}
                \cup {Parse(s) : s \in Scenarios}
    /\ si = 1
    /\ segs = <<>>
    /\ spc = "loop"

\* one iteration of the range loop over the parts: the atoms of the part are
\* yielded
SegPart ==
    /\ spc = "loop"
    /\ si <= Len(sm)
    /\ segs' = Append(segs, partWords(sm[si]))
    /\ si' = si + 1
    /\ UNCHANGED <<sm, spc>>

\* the range loop is over: the generator returns
SegEnd ==
    /\ spc = "loop"
    /\ si > Len(sm)
    /\ spc' = "done"
    /\ UNCHANGED <<sm, si, segs>>

-----------------------------------------------------------------------------
(* The line wrapper: MarkupText.wrapLines.  The generator state is the      *)
(* record ws = [width, line, yielded, stop]; every yielded pair carries,    *)
(* as history, the kind of item the generator meant by it.                  *)

\* yield(width, line): a completed line
LineItem(w, l) == [w |-> w, text |-> l, kind |-> "line"]
\* yield(0, nil): the newline sentinel
NewlineItem == [w |-> 0, text |-> <<>>, kind |-> "newline"]
\* yield(-1, nil): the overflow sentinel
OverflowItem == [w |-> 0 - 1, text |-> <<>>, kind |-> "overflow"]

\* slices.Index(word, '\n'): the first index of a newline, 0 when there is none
RECURSIVE IndexNL(_, _)
IndexNL(word, i) ==
    IF i > Len(word) THEN 0
    ELSE IF word[i] = NL THEN i ELSE IndexNL(word, i + 1)

\* overflow without the return that follows the yield: the loop goes on
overflowNoReturn(ws) ==
    [ws EXCEPT !.yielded = Append(@, OverflowItem)]

\* one word alone exceeds the line: the sentinel is yielded and the
\* generator returns
overflow(ws) ==
    [ws EXCEPT !.yielded = Append(@, OverflowItem), !.stop = TRUE]

\* the second half of an iteration with a word that fills the line to the
\* last pixel taken for too wide
wrapWordStrict(ws, attr, word, bx, sz) ==
    LET adv == measureText(attr, word, sz) IN
    IF Ceil(ws.width + adv) >= bx
    THEN IF ws.width = 0
         THEN overflow(ws)
         ELSE LET y == Append(ws.yielded, LineItem(ws.width, ws.line)) IN
              IF IsSpace(word[1])
              THEN [ws EXCEPT !.yielded = y, !.line = <<>>, !.width = 0]
              ELSE [ws EXCEPT !.yielded = y,
                              !.line = <<[Attr |-> attr, Text |-> word]>>,
                              !.width = adv]
    ELSE [ws EXCEPT !.width = @ + adv,
                    !.line = Append(@, [Attr |-> attr, Text |-> word])]

\* the second half of an iteration: measure the word, wrap before it when it
\* does not fit, then append it
wrapWord(ws, attr, word, bx, sz) ==
    LET adv == measureText(attr, word, sz) IN
    IF Ceil(ws.width + adv) > bx
    THEN IF ws.width = 0
         THEN overflow(ws)
         ELSE LET y == Append(ws.yielded, LineItem(ws.width, ws.line)) IN
              IF IsSpace(word[1])
              THEN [ws EXCEPT !.yielded = y, !.line = <<>>, !.width = 0]
              ELSE [ws EXCEPT !.yielded = y,
                              !.line = <<[Attr |-> attr, Text |-> word]>>,
                              !.width = adv]
    ELSE [ws EXCEPT !.width = @ + adv,
                    !.line = Append(@, [Attr |-> attr, Text |-> word])]

\* an iteration that yields the buffer before the newline sentinel only when
\* the buffer holds something
wrapAtomSkipEmpty(ws, a, bx, sz) ==
    LET nl == IndexNL(a.word, 1) IN
    IF nl # 0
    THEN LET cut  == [ws EXCEPT !.yielded = @ \o (IF ws.line = <<>> THEN <<>>
                                                   ELSE <<LineItem(ws.width, ws.line)>>)
                                                \o <<NewlineItem>>,
                                !.line = <<>>, !.width = 0]
             rest == Drop(a.word, nl)
         IN  IF Len(rest) = 0 THEN cut ELSE wrapWord(cut, a.attr, rest, bx, sz)
    ELSE wrapWord(ws, a.attr, a.word, bx, sz)

\* one iteration of the range loop over words()
wrapAtom(ws, a, bx, sz) ==
    LET nl == IndexNL(a.word, 1) IN
    IF nl # 0
    THEN LET cut  == [ws EXCEPT !.yielded = @ \o <<LineItem(ws.width, ws.line),
                                                   NewlineItem>>,
                                !.line = <<>>, !.width = 0]
             rest == Drop(a.word, nl)
         IN  IF Len(rest) = 0 THEN cut ELSE wrapWord(cut, a.attr, rest, bx, sz)
    ELSE wrapWord(ws, a.attr, a.word, bx, sz)

\* history only: the atom is a whitespace atom dropped at a soft break
softDrop(ws, a, bx, sz) ==
    /\ IndexNL(a.word, 1) = 0
    /\ Ceil(ws.width + measureText(a.attr, a.word, sz)) > bx
    /\ ws.width # 0
    /\ IsSpace(a.word[1])

\* ---- the inputs of the wrapper

WrapAlphabet == {"a", SP, NL}
WrapAttrs == {{}, {Code}}

\* every MarkupText of non-empty parts whose texts have n characters together
RECURSIVE MarkupTexts(_)
MarkupTexts(n) ==
    IF n = 0 THEN {<<>>}
    ELSE UNION { { <<[Attr |-> a, Text |-> t]>> \o rest :
                     a \in WrapAttrs, t \in [1..k -> WrapAlphabet],
                     rest \in MarkupTexts(n - k) } : k \in 1..n }

\* Draw invokes the wrapper on the same runs, box and size in two passes: in
\* the height pass, through totalHeight, and in the render pass
Passes == 2

\* no invocation before the first
NoSeen == [items |-> <<>>, done |-> FALSE]

\* locals that are declared outside the generator and keep their values
localsOutside(w, l) == [width |-> w, line |-> l]

\* var width, var line: the locals of the generator, declared inside the
\* function that wrapLines returns, are zero at every invocation
locals(w, l) == [width |-> 0, line |-> <<>>]

WrapInit ==
    /\ m \in UNION {MarkupTexts(n) : n \in 0..MaxText}
    /\ box \in 1..MaxBox
    /\ size \in 1..MaxSize
    /\ atoms = words(m)
    /\ width = 0
    /\ line = <<>>
    /\ yielded = <<>>
    /\ wpc = "loop"
    /\ kept = <<>>
    /\ calls = 1
    /\ seen = NoSeen

\* the loop body of wrapLines for the next atom of words()
WrapIter ==
    /\ wpc = "loop"
    /\ atoms # <<>>
    /\ LET ws == [width |-> width, line |-> line, yielded |-> yielded, stop |-> FALSE]
           r  == wrapAtom(ws, Head(atoms), box, size)
       IN  /\ width' = r.width
           /\ line' = r.line
           /\ yielded' = r.yielded
           /\ wpc' = IF r.stop THEN "done" ELSE "loop"
           /\ kept' = IF softDrop(ws, Head(atoms), box, size)
                      THEN kept ELSE kept \o Head(atoms).word
    /\ atoms' = Tail(atoms)
    /\ UNCHANGED <<m, box, size, calls, seen>>

\* the end of the generator with a final buffer that is yielded only when it
\* holds something
WrapEndSkipEmpty ==
    /\ wpc = "loop"
    /\ atoms = <<>>
    /\ yielded' = IF line = <<>> THEN yielded
                  ELSE Append(yielded, LineItem(width, line))
    /\ wpc' = "done"
    /\ UNCHANGED <<m, box, size, atoms, width, line, kept, calls, seen>>

\* words() is exhausted: the final buffer is yielded and the generator returns
WrapEnd ==
    /\ wpc = "loop"
    /\ atoms = <<>>
    /\ yielded' = Append(yielded, LineItem(width, line))
    /\ wpc' = "done"
    /\ UNCHANGED <<m, box, size, atoms, width, line, kept, calls, seen>>

\* the generator is invoked again with the same runs, box and size, after the
\* consumer of the invocation before has ranged over it to the end or has
\* left its range loop early
WrapAgain ==
    /\ calls < Passes
    /\ seen' = [items |-> yielded, done |-> wpc = "done"]
    /\ calls' = calls + 1
    /\ atoms' = words(m)
    /\ width' = locals(width, line).width
    /\ line' = locals(width, line).line
    /\ yielded' = <<>>
    /\ wpc' = "loop"
    /\ kept' = <<>>
    /\ UNCHANGED <<m, box, size>>

-----------------------------------------------------------------------------
(* MarkupText.Draw: the heights, the size search and the render pass.       *)

\* font.Face.Metrics: Height and Ascent grow linearly with the size of the face
Height(f) == 5 * f
Ascent(f) == 4 * f

\* fixed.I: whole pixels as fixed.Int26_6
FixedI(n) == n * 64

Max(x, y) == IF x >= y THEN x ELSE y
Min0(x, y) == IF x <= y THEN x ELSE y

\* cfg.NewlineSpacing of defaultConf
NewlineSpacing == 1

\* the bound of the size search: for i := 1; i < 100
SizeLimit == 100

\* MarkupText.height: the greatest Height and Ascent of the faces of the parts
RECURSIVE height(_, _)
height(text, sz) ==
    IF text = <<>> THEN [h |-> 0, asc |-> 0]
    ELSE LET f == face(Head(text).Attr, sz)
             r == height(Tail(text), sz)
         IN  [h |-> Max(Height(f), r.h), asc |-> Max(Ascent(f), r.asc)]

\* the range loop of wrapLines run to the end of the generator
RECURSIVE wrapLoop(_, _, _, _)
wrapLoop(ws, as, bx, sz) ==
    IF ws.stop THEN ws.yielded
    ELSE IF as = <<>> THEN Append(ws.yielded, LineItem(ws.width, ws.line))
    ELSE wrapLoop(wrapAtom(ws, Head(as), bx, sz), Tail(as), bx, sz)

\* MarkupText.wrapLines: all the pairs the generator yields, as its consumers
\* in totalHeight and Draw range over them
wrapLines(mt, bx, sz) ==
    wrapLoop([width |-> 0, line |-> <<>>, yielded |-> <<>>, stop |-> FALSE],
             words(mt), bx, sz)

\* the range loop of totalHeight over the yielded pairs
RECURSIVE sumHeight(_, _, _)
sumHeight(items, sz, acc) ==
    IF items = <<>> THEN [h |-> acc, ok |-> TRUE]
    ELSE IF Head(items).w = 0 - 1 THEN [h |-> acc, ok |-> FALSE]
    ELSE IF Head(items).text = <<>>
    THEN sumHeight(Tail(items), sz, acc + FixedI(sz * NewlineSpacing))
    ELSE sumHeight(Tail(items), sz, acc + height(Head(items).text, sz).h)

\* totalHeight that never clears ok
totalHeightNoSentinel(mt, bx, sz) ==
    [sumHeight(wrapLines(mt, bx, sz), sz, 0) EXCEPT !.ok = TRUE]

\* MarkupText.totalHeight: (totalHeight, ok)
totalHeight(mt, bx, sz) == sumHeight(wrapLines(mt, bx, sz), sz, 0)

\* the test of the size search without the test of ok
fitsAnyWrap(r, dy) == ~(Ceil(r.h) >= dy)

\* the test of the size search with a height that may reach the box height
fitsUpTo(r, dy) == ~(~r.ok \/ Ceil(r.h) > dy)

\* the size search goes on: the negation of !ok || h.Ceil() >= bounds.Dy()
fits(r, dy) == ~(~r.ok \/ Ceil(r.h) >= dy)

\* ---- the decoration runs

\* lineRun{underline: u}
NewRun(u) == [underline |-> u, active |-> FALSE, start |-> 0, face |-> 0]

\* lineRun.closeRun at the pen (X, Y): (rectangle, ok); the caller holds the
\* run, whose active is cleared whenever it was set
closeRun(run, X, Y) ==
    LET thick == Max(Ceil(Height(run.face)) \div 20, 1)
        y     == IF run.underline THEN Y + FixedI(thick)
                                  ELSE Y - (Ascent(run.face) \div 3)
        none  == [x0 |-> 0, y0 |-> 0, x1 |-> 0, y1 |-> 0]
    IN  IF ~run.active THEN [rect |-> none, ok |-> FALSE]
        ELSE IF X <= run.start THEN [rect |-> none, ok |-> FALSE]
        ELSE [rect |-> [x0 |-> Ceil(run.start), y0 |-> Ceil(y),
                        x1 |-> Ceil(X), y1 |-> Ceil(y) + thick],
              ok |-> TRUE]

\* line, ok := run.closeRun(dot); if ok { line = line.Add(bounds.Min); draw }
\* for the underline run (u) or the strikethrough run; the rectangle carries,
\* as history, its run, the item of the render loop it was drawn in and the
\* number of newline runes drawn before it in that item (its visual row), and
\* the call is recorded with the run as it was and the pen
closed(ds, u, run, c) ==
    [ds EXCEPT
        !.ul = IF u THEN [@ EXCEPT !.active = FALSE] ELSE @,
        !.st = IF u THEN @ ELSE [@ EXCEPT !.active = FALSE],
        !.closes = Append(@, [underline |-> u, active |-> run.active,
                              start |-> run.start, X |-> ds.X, ok |-> c.ok,
                              line |-> ds.lineNo]),
        !.rects = IF c.ok
                  THEN Append(@,
                         [x0 |-> c.rect.x0 + ds.min.x, y0 |-> c.rect.y0 + ds.min.y,
                          x1 |-> c.rect.x1 + ds.min.x, y1 |-> c.rect.y1 + ds.min.y,
                          underline |-> u, line |-> ds.lineNo, row |-> ds.row])
                  ELSE @]

\* the call of closeRun on the underline run (u) or the strikethrough run at
\* the pen, and what is done with its results
closeDraw(ds, u) ==
    closed(ds, u, IF u THEN ds.ul ELSE ds.st,
           closeRun(IF u THEN ds.ul ELSE ds.st, ds.X, ds.Y))

\* if run.active { line, ok := run.closeRun(dot); ... }
closeIfActive(ds, u) ==
    IF (IF u THEN ds.ul.active ELSE ds.st.active) THEN closeDraw(ds, u) ELSE ds

\* no run is closed at a newline or at the end of a line
closeNone(ds) == ds

\* the runs that are active are closed: at a newline and at the end of a line
closeActive(ds) ==
    closeIfActive(closeIfActive(ds, TRUE), FALSE)

\* prevRune = -1
NoRune == "none"

\* yOffset += h; dot.X = 0; dot.Y = yOffset + asc; prevRune = -1, at a
\* newline rune; the visual row is counted as history
nextRow(ds, h, asc) ==
    [ds EXCEPT !.yOffset = @ + h, !.X = 0, !.Y = ds.yOffset + h + asc,
               !.prevRune = NoRune, !.row = @ + 1, !.rune = @ + 1]

\* the pen is moved by the kerning k and, after the glyph is drawn (no
\* glyph is drawn for a tab), by the advance adv
drawGlyph(ds, r, k, adv) ==
    [ds EXCEPT !.X = @ + k + adv, !.prevRune = r, !.rune = @ + 1,
               !.glyphs = IF r = TAB THEN @
                          ELSE Append(@, [attr |-> ds.cur, x0 |-> ds.X + k,
                                          x1 |-> ds.X + k + adv,
                                          line |-> ds.lineNo, row |-> ds.row])]

\* one iteration of the rune loop of a part; a glyph that is drawn is
\* recorded, as history, with the flags of its part, the pen before and after
\* it, and its visual row
drawRune(ds, f, r, h, asc) ==
    IF r = NL
    THEN nextRow(closeActive(ds), h, asc)
    ELSE drawGlyph(ds, r,
                   IF ds.prevRune # NoRune THEN Kern(f, ds.prevRune, r) ELSE 0,
                   IF r = TAB THEN GlyphAdvance(f, SP) * TabSize
                              ELSE GlyphAdvance(f, r))

\* the range loop over part.Text, from the rune at the position ds.rune
RECURSIVE drawRunes(_, _, _, _, _)
drawRunes(ds, f, text, h, asc) ==
    IF ds.rune > Len(text) THEN ds
    ELSE drawRunes(drawRune(ds, f, text[ds.rune], h, asc), f, text, h, asc)

\* a run that is never closed where its style ends
closingNever(has, run) == FALSE

\* a run is closed where a part without its flag begins
closing(has, run) == ~has /\ run.active

\* a run is started anew at every part that carries its flag
openingAlways(has, run) == has

\* a run is started where a part with its flag begins and none is active
opening(has, run) == has /\ ~run.active

\* the part carries the flag of the underline run (u) or of the
\* strikethrough run
hasFlag(part, u) == (IF u THEN Underline ELSE Strikethrough) \in part.Attr

\* if hasUL && !ul.active { ul.active = true; ul.start = dot.X; ul.face = face }
\* and the same for the strikethrough run
openAt(ds, u, part, sz) ==
    IF opening(hasFlag(part, u), IF u THEN ds.ul ELSE ds.st)
    THEN [ds EXCEPT
            !.ul = IF u THEN [@ EXCEPT !.active = TRUE, !.start = ds.X,
                                       !.face = face(part.Attr, sz)] ELSE @,
            !.st = IF u THEN @
                   ELSE [@ EXCEPT !.active = TRUE, !.start = ds.X,
                                  !.face = face(part.Attr, sz)]]
    ELSE ds

\* if !hasUL && ul.active { line, ok := ul.closeRun(dot); ... } and the same
\* for the strikethrough run
closeAt(ds, u, part) ==
    IF closing(hasFlag(part, u), IF u THEN ds.ul ELSE ds.st)
    THEN closeDraw(ds, u)
    ELSE ds

\* the part is recorded, as history, with the pen before it (in ds) and
\* after it (in d) and the two runs after it
partDrawn(ds, part, d) ==
    [d EXCEPT !.part = @ + 1,
              !.drawn = Append(@, [attr |-> part.Attr, text |-> part.Text,
                                        x0 |-> ds.X, x1 |-> d.X,
                                        line |-> ds.lineNo,
                                        ul |-> d.ul.active,
                                        st |-> d.st.active])]

\* one iteration of the loop over the parts of a line; the part is recorded,
\* as history, with the pen before and after it and the two runs after it
drawPart(ds, part, sz, h, asc) ==
    partDrawn(ds, part,
        drawRunes(
            [closeAt(openAt(closeAt(openAt(ds, TRUE, part, sz), TRUE, part),
                            FALSE, part, sz), FALSE, part)
                EXCEPT !.cur = part.Attr, !.rune = 1],
            face(part.Attr, sz), part.Text, h, asc))

\* the range loop over the parts of a line, from the part at the position
\* ds.part
RECURSIVE drawParts(_, _, _, _, _)
drawParts(ds, text, sz, h, asc) ==
    IF ds.part > Len(text) THEN ds
    ELSE drawParts(drawPart(ds, text[ds.part], sz, h, asc), text, sz, h, asc)

\* yOffset += h at the end of the body of the render loop; the two runs are
\* recorded, as history, as they are then
lineDrawn(ds, h) ==
    [ds EXCEPT !.yOffset = @ + h,
               !.ends = Append(@, [line |-> ds.lineNo, ul |-> ds.ul.active,
                                   st |-> ds.st.active])]

\* the body of the render loop after h, asc := text.height(size, cfg): the
\* pen is set by cfg.Align, the parts are drawn, the runs are closed
drawLineAt(ds, item, sz, bx, c, hh) ==
    lineDrawn(
        closeActive(
            drawParts(
                [ds EXCEPT !.X = IF c.Align = "Left" THEN 0
                                 ELSE IF c.Align = "Center"
                                 THEN FixedI(bx \div 2) - (item.w \div 2)
                                 ELSE FixedI(bx) - item.w,
                           !.Y = ds.yOffset + hh.asc,
                           !.prevRune = NoRune, !.part = 1,
                           !.ul = NewRun(TRUE), !.st = NewRun(FALSE)],
                item.text, sz, hh.h, hh.asc)),
        hh.h)

\* the body of the render loop for a line that is not nil; the two runs are
\* recorded, as history, as they are when the body has been run
drawLine(ds, item, sz, bx, c) ==
    drawLineAt(ds, item, sz, bx, c, height(item.text, sz))

\* ---- the inputs of Draw

DrawAlphabet == {"a", SP, NL}
DrawAttrs == {{}, {Underline}}

\* every MarkupText of non-empty parts whose texts have n characters together
RECURSIVE DrawTexts(_)
DrawTexts(n) ==
    IF n = 0 THEN {<<>>}
    ELSE UNION { { <<[Attr |-> a, Text |-> t]>> \o rest :
                     a \in DrawAttrs, t \in [1..k -> DrawAlphabet],
                     rest \in DrawTexts(n - k) } : k \in 1..n }

\* texts of the documentation of the markup, as the parser is fed them
DrawScenarios ==
    { <<"_", "_", "a", "b", "_", "_", "c", "d">>,
      <<"*", "*", "H", "e", "l", "l", "o", "*", "*", SP,
        "_", "W", "o", "r", "l", "d", "_">>,
      <<"~", "~", "a", SP, "_", "_", "b", "_", "_", "~", "~", "c">>,
      <<"_", "_", BT, "a", NL, NL, "b", BT, "_", "_">> }

\* the text of FinalSlide
FinalSlideText ==
    << [Attr |-> {Bold},
        Text |-> <<"E", "n", "d", SP, "o", "f", SP, "P", "r", "e", "s", "e",
                   "n", "t", "a", "t", "i", "o", "n">>] >>

\* the configurations: defaultConf, the one FinalSlide makes of it, and two
\* that AddAttribute can make of it
Configs ==
    { [Align |-> "Center", VAlign |-> "Middle", FontSize |-> 0],
      [Align |-> "Center", VAlign |-> "Top", FontSize |-> 3],
      [Align |-> "Left", VAlign |-> "Top", FontSize |-> 0],
      [Align |-> "Right", VAlign |-> "Bottom", FontSize |-> 0] }

\* the boxes: small ones, and wide or tall ones that let the search run on
DrawBoxes ==
    LET Origin == [x |-> 0, y |-> 0]
        Inner  == [x |-> 1, y |-> 2]
    IN  { [min |-> Origin, dx |-> x, dy |-> y] : x \in 1..MaxBox, y \in 1..MaxBox }
        \cup { [min |-> Inner, dx |-> BigBox, dy |-> y] : y \in 1..MaxBox }
        \cup { [min |-> Inner, dx |-> x, dy |-> BigBox] : x \in 1..MaxBox }

\* Draw is entered; bounds is the rectangle that cfg.Margin.Apply has returned
DrawInit ==
    /\ dm \in UNION {DrawTexts(n) : n \in 0..MaxDrawText}
                \cup {Parse(s) : s \in DrawScenarios} \cup {FinalSlideText}
    /\ dbox \in DrawBoxes
    /\ cfg \in Configs
    /\ dpc = "search"
    /\ cand = 1
    /\ tested = <<>>
    /\ dsize = 0
    /\ totalH = 0
    /\ yOffset = 0
    /\ lines = <<>>
    /\ lineNo = 0
    /\ rects = <<>>
    /\ drawn = <<>>
    /\ closes = <<>>
    /\ ends = <<>>
    /\ glyphs = <<>>

\* one iteration of the size search: the candidate is kept and the search
\* goes on, or the loop is left by break
SizeIter ==
    /\ dpc = "search"
    /\ cand < SizeLimit
    /\ tested' = Append(tested, cand)
    /\ LET r == totalHeight(dm, dbox.dx, cand) IN
          IF fits(r, dbox.dy)
          THEN /\ totalH' = r.h
               /\ dsize' = cand
               /\ cand' = cand + 1
               /\ dpc' = "search"
          ELSE /\ dpc' = "place"
               /\ UNCHANGED <<totalH, dsize, cand>>
    /\ UNCHANGED <<dm, dbox, cfg, yOffset, lines, lineNo, rects, drawn, closes, ends, glyphs>>

\* the size search has run to its bound
SizeExit ==
    /\ dpc = "search"
    /\ ~(cand < SizeLimit)
    /\ dpc' = "place"
    /\ UNCHANGED <<dm, dbox, cfg, cand, tested, dsize, totalH, yOffset, lines,
                   lineNo, rects, drawn, closes, ends, glyphs>>

\* the render loop is entered with the block at the top, whatever cfg.VAlign
PlaceTop ==
    /\ dpc = "place"
    /\ yOffset' = 0
    /\ lines' = wrapLines(dm, dbox.dx, dsize)
    /\ dpc' = "lines"
    /\ UNCHANGED <<dm, dbox, cfg, cand, tested, dsize, totalH, lineNo, rects, drawn, closes, ends, glyphs>>

\* the vertical offset of the block, and the entry of the render loop
Place ==
    /\ dpc = "place"
    /\ yOffset' = IF cfg.VAlign = "Top" THEN 0
                  ELSE IF cfg.VAlign = "Middle"
                  THEN FixedI(dbox.dy \div 2) - (totalH \div 2)
                  ELSE FixedI(dbox.dy) - totalH
    /\ lines' = wrapLines(dm, dbox.dx, dsize)
    /\ dpc' = "lines"
    /\ UNCHANGED <<dm, dbox, cfg, cand, tested, dsize, totalH, lineNo, rects, drawn, closes, ends, glyphs>>

\* the variables of Draw after the body of the render loop has given r
Rendered(r) ==
    /\ yOffset' = r.yOffset
    /\ rects' = r.rects
    /\ drawn' = r.drawn
    /\ closes' = r.closes
    /\ ends' = r.ends
    /\ glyphs' = r.glyphs

\* one iteration of the render loop: a nil text advances the offset, a line is
\* drawn part by part
DrawLine ==
    /\ dpc = "lines"
    /\ lines # <<>>
    /\ lineNo' = lineNo + 1
    /\ IF Head(lines).text = <<>>
       THEN /\ yOffset' = yOffset + FixedI(dsize * NewlineSpacing)
            /\ UNCHANGED <<rects, drawn, closes, ends, glyphs>>
       ELSE Rendered(
                drawLine([X |-> 0, Y |-> 0, yOffset |-> yOffset,
                          prevRune |-> NoRune,
                          ul |-> NewRun(TRUE), st |-> NewRun(FALSE),
                          rects |-> rects, drawn |-> drawn,
                          closes |-> closes, ends |-> ends, glyphs |-> glyphs,
                          cur |-> {}, row |-> 0, part |-> 1, rune |-> 1,
                          min |-> dbox.min, lineNo |-> lineNo + 1],
                         Head(lines), dsize, dbox.dx, cfg))
    /\ lines' = Tail(lines)
    /\ UNCHANGED <<dm, dbox, cfg, dpc, cand, tested, dsize, totalH>>

\* the generator is exhausted: Draw returns
DrawEnd ==
    /\ dpc = "lines"
    /\ lines = <<>>
    /\ dpc' = "done"
    /\ UNCHANGED <<dm, dbox, cfg, cand, tested, dsize, totalH, yOffset, lines,
                   lineNo, rects, drawn, closes, ends, glyphs>>

-----------------------------------------------------------------------------
(* positionImage: the rectangle an image is scaled into (presenter.go)      *)

\* image.Rectangle.Empty, Dx and Dy
Empty(r) == r.min.x >= r.max.x \/ r.min.y >= r.max.y
Dx(r) == r.max.x - r.min.x
Dy(r) == r.max.y - r.min.y

\* image.Rectangle{}
ZeroRect == [min |-> [x |-> 0, y |-> 0], max |-> [x |-> 0, y |-> 0]]

\* int(d * s) for the factor s = num / den, computed in float64: where the
\* product is a whole number exactly, the rounding of the quotient can leave
\* it just below that number (low), and the conversion then gives one less
scaled(d, num, den, low) ==
    IF (d * num) % den = 0 /\ low THEN (d * num) \div den - 1
    ELSE (d * num) \div den

\* positionImage with the image centred on the half of the box
positionImageHalf(src, bx, align, valign, lowW, lowH) ==
    IF Empty(src) \/ Empty(bx) THEN ZeroRect
    ELSE
    LET bw == Dx(bx)
        bh == Dy(bx)
        sw == Dx(src)
        sh == Dy(src)
        byW == bw * sh <= bh * sw
        w == Min0(IF byW THEN scaled(sw, bw, sw, lowW) ELSE scaled(sw, bh, sh, lowW), bw)
        h == Min0(IF byW THEN scaled(sh, bw, sw, lowH) ELSE scaled(sh, bh, sh, lowH), bh)
        x == IF align = "Center" /\ w < bw THEN bw \div 2
             ELSE IF align = "Right" /\ w < bw THEN bw - w
             ELSE 0
        y0 == IF align = "Center" /\ h < bh THEN bh \div 2 - h \div 2 ELSE 0
        y == IF valign = "Top" THEN 0
             ELSE IF valign = "Middle"
             THEN (IF h < bh THEN bh \div 2 - h \div 2 ELSE y0)
             ELSE (IF y0 < bh THEN bh - h ELSE y0)
    IN  [min |-> [x |-> bx.min.x + x, y |-> bx.min.y + y],
         max |-> [x |-> bx.min.x + x + w, y |-> bx.min.y + y + h]]

\* positionImage: the factor is the smaller of bw/sw and bh/sh; the width and
\* height are the scaled ones, capped to the box; x and y by the alignments
positionImage(src, bx, align, valign, lowW, lowH) ==
    IF Empty(src) \/ Empty(bx) THEN ZeroRect
    ELSE
    LET bw == Dx(bx)
        bh == Dy(bx)
        sw == Dx(src)
        sh == Dy(src)
        byW == bw * sh <= bh * sw
        w == Min0(IF byW THEN scaled(sw, bw, sw, lowW) ELSE scaled(sw, bh, sh, lowW), bw)
        h == Min0(IF byW THEN scaled(sh, bw, sw, lowH) ELSE scaled(sh, bh, sh, lowH), bh)
        x == IF align = "Center" /\ w < bw THEN bw \div 2 - w \div 2
             ELSE IF align = "Right" /\ w < bw THEN bw - w
             ELSE 0
        y0 == IF align = "Center" /\ h < bh THEN bh \div 2 - h \div 2 ELSE 0
        y == IF valign = "Top" THEN 0
             ELSE IF valign = "Middle"
             THEN (IF h < bh THEN bh \div 2 - h \div 2 ELSE y0)
             ELSE (IF y0 < bh THEN bh - h ELSE y0)
    IN  [min |-> [x |-> bx.min.x + x, y |-> bx.min.y + y],
         max |-> [x |-> bx.min.x + x + w, y |-> bx.min.y + y + h]]

\* ---- the inputs of positionImage

Alignments == {"Left", "Center", "Right"}
VerticalAlignments == {"Top", "Middle", "Bottom"}

\* the rectangles at a corner, up to MaxImg pixels wide and high; those with
\* a side of 0 are empty
RectsAt(c) ==
    { [min |-> c, max |-> [x |-> c.x + w, y |-> c.y + h]] :
        w \in 0..MaxImg, h \in 0..MaxImg }

ImageInit ==
    /\ isrc \in RectsAt([x |-> 0, y |-> 0])
    /\ ibox \in RectsAt([x |-> 0, y |-> 0]) \cup RectsAt([x |-> 1, y |-> 2])
    /\ ialign \in Alignments
    /\ ivalign \in VerticalAlignments
    /\ irect = ZeroRect
    /\ ipc = "call"

\* the call of positionImage by ImageSlide.Draw
PositionImage ==
    /\ ipc = "call"
    /\ \E lowW, lowH \in BOOLEAN :
          irect' = positionImage(isrc, ibox, ialign, ivalign, lowW, lowH)
    /\ ipc' = "done"
    /\ UNCHANGED <<isrc, ibox, ialign, ivalign>>

-----------------------------------------------------------------------------
(* ParsePresentation and the event loop of main (markup.go, main.go)        *)

\* strings.TrimRightFunc(line, unicode.IsSpace)
RECURSIVE TrimRightSpace(_)
TrimRightSpace(s) ==
    IF s # <<>> /\ IsSpace(s[Len(s)])
    THEN TrimRightSpace(SubSeq(s, 1, Len(s) - 1))
    ELSE s

\* strings.TrimLeftFunc(line, unicode.IsSpace)
RECURSIVE TrimLeftSpace(_)
TrimLeftSpace(s) ==
    IF s # <<>> /\ IsSpace(Head(s)) THEN TrimLeftSpace(Tail(s)) ELSE s

\* strings.Cut(str, "="): (before, after, found)
Cut(str, sep) ==
    IF \E i \in 1..Len(str) : str[i] = sep
    THEN LET i == CHOOSE i \in 1..Len(str) :
                      str[i] = sep /\ \A j \in 1..(i - 1) : str[j] # sep
         IN  [before |-> SubSeq(str, 1, i - 1), after |-> Drop(str, i),
              found |-> TRUE]
    ELSE [before |-> str, after |-> <<>>, found |-> FALSE]

\* the keys and the values of the options of alignment
KeyAlign    == <<"a", "l", "i", "g", "n">>
KeyVAlign   == <<"v", "a", "l", "i", "g", "n">>
ValueLeft   == <<"l", "e", "f", "t">>
ValueCenter == <<"c", "e", "n", "t", "e", "r">>
ValueMiddle == <<"m", "i", "d", "d", "l", "e">>
ValueRight  == <<"r", "i", "g", "h", "t">>
ValueTop    == <<"t", "o", "p">>

\* PresConfig.AddAttribute: (the configuration, err != nil); the cases of the
\* two alignments, the fields of the configuration that Draw and
\* positionImage read, and the default case
AddAttribute(c, str) ==
    LET kv     == Cut(str, "=")
        key    == kv.before
        value  == kv.after
        failed == [conf |-> c, err |-> TRUE]
    IN  IF key = KeyAlign
        THEN IF ~kv.found THEN failed
             ELSE IF value = ValueLeft
             THEN [conf |-> [c EXCEPT !.Align = "Left"], err |-> FALSE]
             ELSE IF value \in {ValueCenter, ValueMiddle}
             THEN [conf |-> [c EXCEPT !.Align = "Center"], err |-> FALSE]
             ELSE IF value = ValueRight
             THEN [conf |-> [c EXCEPT !.Align = "Right"], err |-> FALSE]
             ELSE failed
        ELSE IF key = KeyVAlign
        THEN IF ~kv.found THEN failed
             ELSE IF value = ValueTop
             THEN [conf |-> [c EXCEPT !.VAlign = "Top"], err |-> FALSE]
             ELSE IF value \in {ValueCenter, ValueMiddle}
             THEN [conf |-> [c EXCEPT !.VAlign = "Middle"], err |-> FALSE]
             ELSE IF value = ValueRight
             THEN [conf |-> [c EXCEPT !.VAlign = "Bottom"], err |-> FALSE]
             ELSE failed
        ELSE failed

\* defaultConf()
defaultConf == [Align |-> "Center", VAlign |-> "Middle", FontSize |-> 0]

\* the lines that are tested for by the switch of ParsePresentation
ColumnBreak == <<"%", "%", "%">>
Separator   == <<"-", "-", "-">>
SetPrefix   == <<"%", "s", "e", "t", SP>>
OptPrefix   == <<"%">>

\* the lines of the files: an empty line, a comment, a column break, a
\* separator, an option of the presentation, options of a slide (one with a
\* blank at its end, one with a blank after the %), an image and a text
DeckLines ==
    { <<>>,
      <<"#", "c">>,
      ColumnBreak,
      Separator,
      <<"%", "s", "e", "t", SP, "a", "l", "i", "g", "n", "=", "l", "e", "f", "t">>,
      <<"%", "a", "l", "i", "g", "n", "=", "r", "i", "g", "h", "t", SP>>,
      <<"%", SP, "v", "a", "l", "i", "g", "n", "=", "r", "i", "g", "h", "t">>,
      <<"@", "i">>,
      <<"a">> }

\* if markup.Dirty() { slides = append(slides, markup.Text()); markup.Reset() }
flush(st) ==
    IF Dirty(st.markup)
    THEN [st EXCEPT !.slides = Append(@, emit(st.markup).out),
                    !.markup = NewBuilder]
    ELSE st

\* the per-slide configuration is kept when a slide has been appended
keepSlideConf(global, slide) == slide

\* slideconf = globalconf, when a slide has been appended
nextSlideConf(global, slide) == global

\* the body of the scanner loop for the line that scanner.Text() returns, on
\* the locals st; loaded tells whether NewImageSlide returns without an error
scanLine(st, text, loaded) ==
    LET l == TrimRightSpace(text) IN
    IF l = <<>>
    THEN [st EXCEPT !.markup = FeedAll(@, <<NL>>)]
    ELSE IF l[1] = "#"
    THEN st
    ELSE IF l = ColumnBreak
    THEN flush(st)
    ELSE IF l = Separator
    THEN LET s1 == flush(st) IN
         [s1 EXCEPT !.pres = Append(@, [Conf |-> s1.slideconf,
                                        Content |-> s1.slides]),
                    !.slides = <<>>,
                    !.slideconf = nextSlideConf(s1.globalconf, s1.slideconf)]
    ELSE IF HasPrefix(l, SetPrefix)
    THEN [st EXCEPT !.globalconf =
                        AddAttribute(@, TrimLeftSpace(Drop(l, 4))).conf]
    ELSE IF HasPrefix(l, OptPrefix)
    THEN [st EXCEPT !.slideconf =
                        AddAttribute(@, TrimLeftSpace(Drop(l, 1))).conf]
    ELSE IF l[1] = "@"
    THEN LET s1 == flush(st) IN
         IF loaded
         THEN [s1 EXCEPT !.slides = Append(@, [image |-> Drop(l, 1)])]
         ELSE [s1 EXCEPT !.ppc = "exit"]
    ELSE [st EXCEPT !.markup = FeedAll(@, l)]

\* main opens the file and calls ParsePresentation
PresentInit ==
    /\ deck \in UNION {[1..n -> DeckLines] : n \in 0..MaxLines}
    /\ unread = deck
    /\ markup = NewBuilder
    /\ slides = <<>>
    /\ globalconf = defaultConf
    /\ slideconf = defaultConf
    /\ pres = <<>>
    /\ ppc = "scan"
    /\ index = 0
    /\ running = TRUE
    /\ fullscreen = FALSE
    /\ ev = "none"
    /\ indexWas = 0
    /\ shown = {}

\* one iteration of the scanner loop
ScanLine ==
    /\ ppc = "scan"
    /\ unread # <<>>
    /\ \E loaded \in BOOLEAN :
          LET st == [markup |-> markup, slides |-> slides, pres |-> pres,
                     globalconf |-> globalconf, slideconf |-> slideconf,
                     ppc |-> ppc]
              r  == scanLine(st, Head(unread), loaded)
          IN  /\ markup' = r.markup
              /\ slides' = r.slides
              /\ pres' = r.pres
              /\ globalconf' = r.globalconf
              /\ slideconf' = r.slideconf
              /\ ppc' = r.ppc
    /\ unread' = Tail(unread)
    /\ UNCHANGED <<deck, index, running, fullscreen, ev, indexWas, shown>>

\* the scanner has no more lines: the last slide is appended, and main goes
\* on to create the windows and to enter the event loop
ScanEnd ==
    /\ ppc = "scan"
    /\ unread = <<>>
    /\ LET st == flush([markup |-> markup, slides |-> slides])
       IN  /\ markup' = st.markup
           /\ slides' = st.slides
           /\ pres' = Append(pres, [Conf |-> slideconf, Content |-> st.slides])
    /\ ppc' = "loop"
    /\ index' = 0
    /\ running' = TRUE
    /\ fullscreen' = FALSE
    /\ UNCHANGED <<deck, unread, globalconf, slideconf, ev, indexWas, shown>>

\* the events sdl.WaitEvent returns: a quit event, the window events close,
\* exposed and resized, a keyboard event that is no KEYDOWN, and the keys
Events ==
    {"Quit", "WINDOWEVENT_CLOSE", "WINDOWEVENT_EXPOSED", "WINDOWEVENT_RESIZED",
     "KEYUP", "K_UP", "K_LEFT", "K_DOWN", "K_RIGHT", "K_f", "K_q"}

\* case sdl.K_UP, sdl.K_LEFT: (index, dirty)
prevSlide(i) ==
    IF i > 0 THEN [index |-> i - 1, dirty |-> TRUE]
    ELSE [index |-> i, dirty |-> FALSE]

\* the test of the next-slide keys against len(pres.Slides)
nextSlideUpTo(i, n) ==
    IF i < n THEN [index |-> i + 1, dirty |-> TRUE]
    ELSE [index |-> i, dirty |-> FALSE]

\* case sdl.K_DOWN, sdl.K_RIGHT: (index, dirty)
nextSlide(i, n) ==
    IF i < n - 1 THEN [index |-> i + 1, dirty |-> TRUE]
    ELSE [index |-> i, dirty |-> FALSE]

\* the indices of the slides DrawPresenter draws: slides[0], and slides[1]
\* when len(slides) > 1, of slides := pres.Slides[index:]
presenterDraws(i, n) == {i} \cup (IF n - i > 1 THEN {i + 1} ELSE {})

\* one iteration of the event loop: the event is handled, the loop is left
\* when running is false, and when dirty is set the slide is drawn in the
\* window and DrawPresenter is called for the presenter window (the loop of
\* main.go is this one less the presenter window)
HandleEvent ==
    /\ ppc = "loop"
    /\ running
    /\ \E e \in Events :
          LET n     == Len(pres)
              moved == IF e \in {"K_UP", "K_LEFT"} THEN prevSlide(index)
                       ELSE IF e \in {"K_DOWN", "K_RIGHT"} THEN nextSlide(index, n)
                       ELSE [index |-> index, dirty |-> FALSE]
              dirty == moved.dirty
                       \/ e \in {"WINDOWEVENT_EXPOSED", "WINDOWEVENT_RESIZED"}
              runs  == e \notin {"Quit", "WINDOWEVENT_CLOSE", "K_q"}
              draws == runs /\ dirty
          IN  /\ ev' = e
              /\ indexWas' = index
              /\ index' = moved.index
              /\ running' = runs
              /\ fullscreen' = IF e = "K_f" THEN ~fullscreen ELSE fullscreen
              /\ shown' = IF draws THEN {moved.index}
                                        \cup presenterDraws(moved.index, n)
                          ELSE {}
              /\ ppc' = IF draws /\ moved.index \notin 0..(n - 1)
                        THEN "panic" ELSE "loop"
    /\ UNCHANGED <<deck, unread, markup, slides, globalconf, slideconf, pres>>

-----------------------------------------------------------------------------
(* The specifications *)

\* the parser at rest, for the specifications that do not run it
ParseIdle ==
    /\ input = <<>>
    /\ pending = <<>>
    /\ b = NewBuilder
    /\ content = <<>>
    /\ pc = "idle"
    /\ fed = <<>>
    /\ entry = NewBuilder
    /\ prev = NoPrev
    /\ ret = NoRet

\* the wrapper at rest, for the specifications that do not run it
WrapIdle ==
    /\ m = <<>>
    /\ box = 1
    /\ size = 1
    /\ atoms = <<>>
    /\ width = 0
    /\ line = <<>>
    /\ yielded = <<>>
    /\ wpc = "done"
    /\ kept = <<>>
    /\ calls = Passes
    /\ seen = NoSeen

\* the segmenter at rest, for the specifications that do not run it
SegIdle ==
    /\ sm = <<>>
    /\ si = 1
    /\ segs = <<>>
    /\ spc = "done"

\* Draw at rest, for the specifications that do not run it
DrawIdle ==
    /\ dm = <<>>
    /\ dbox = [min |-> [x |-> 0, y |-> 0], dx |-> 1, dy |-> 1]
    /\ cfg = [Align |-> "Center", VAlign |-> "Middle", FontSize |-> 0]
    /\ dpc = "done"
    /\ cand = 1
    /\ tested = <<>>
    /\ dsize = 0
    /\ totalH = 0
    /\ yOffset = 0
    /\ lines = <<>>
    /\ lineNo = 0
    /\ rects = <<>>
    /\ drawn = <<>>
    /\ closes = <<>>
    /\ ends = <<>>
    /\ glyphs = <<>>

\* positionImage at rest, for the specifications that do not run it
ImageIdle ==
    /\ isrc = ZeroRect
    /\ ibox = ZeroRect
    /\ ialign = "Center"
    /\ ivalign = "Middle"
    /\ irect = ZeroRect
    /\ ipc = "done"

\* main at rest, for the specifications that do not run it
PresentIdle ==
    /\ deck = <<>>
    /\ unread = <<>>
    /\ markup = NewBuilder
    /\ slides = <<>>
    /\ globalconf = defaultConf
    /\ slideconf = defaultConf
    /\ pres = <<>>
    /\ ppc = "exit"
    /\ index = 0
    /\ running = FALSE
    /\ fullscreen = FALSE
    /\ ev = "none"
    /\ indexWas = 0
    /\ shown = {}

\* the variables a specification leaves alone
notParse == <<wvars, svars, dvars, ivars, qvars>>
notWrap  == <<pvars, svars, dvars, ivars, qvars>>
notSeg   == <<pvars, wvars, dvars, ivars, qvars>>
notDraw  == <<pvars, wvars, svars, ivars, qvars>>
notImage == <<pvars, wvars, svars, dvars, qvars>>
notPresent == <<pvars, wvars, svars, dvars, ivars>>

ParseNext ==
    \/ FeedBegin /\ UNCHANGED notParse
    \/ FeedIter /\ UNCHANGED notParse
    \/ FeedEnd /\ UNCHANGED notParse
    \/ Text /\ UNCHANGED notParse
    \/ Reset /\ UNCHANGED notParse

WrapNext ==
    \/ WrapIter /\ UNCHANGED notWrap
    \/ WrapEnd /\ UNCHANGED notWrap
    \/ WrapAgain /\ UNCHANGED notWrap

SegNext ==
    \/ SegPart /\ UNCHANGED notSeg
    \/ SegEnd /\ UNCHANGED notSeg

DrawNext ==
    \/ SizeIter /\ UNCHANGED notDraw
    \/ SizeExit /\ UNCHANGED notDraw
    \/ Place /\ UNCHANGED notDraw
    \/ DrawLine /\ UNCHANGED notDraw
    \/ DrawEnd /\ UNCHANGED notDraw

ImageNext ==
    \/ PositionImage /\ UNCHANGED notImage

PresentNext ==
    \/ ScanLine /\ UNCHANGED notPresent
    \/ ScanEnd /\ UNCHANGED notPresent
    \/ HandleEvent /\ UNCHANGED notPresent

\* the parser, fed a text in chunks, with Text and Reset calls in between
InitParse == ParseInit /\ WrapIdle /\ SegIdle /\ DrawIdle /\ ImageIdle /\ PresentIdle
SpecParse == InitParse /\ [][ParseNext]_vars

\* the segmenter and the wrapper, run on a MarkupText to the end
InitWrap == WrapInit /\ ParseIdle /\ SegIdle /\ DrawIdle /\ ImageIdle /\ PresentIdle
SpecWrap == InitWrap /\ [][WrapNext]_vars

\* one traversal, by a consumer that goes on ranging: the loop body and the
\* final yield are taken when they can be
WrapOnceNext ==
    \/ WrapIter /\ UNCHANGED notWrap
    \/ WrapEnd /\ UNCHANGED notWrap

SpecWrapLive ==
    /\ InitWrap
    /\ [][WrapOnceNext]_vars
    /\ WF_vars(WrapIter /\ UNCHANGED notWrap)
    /\ WF_vars(WrapEnd /\ UNCHANGED notWrap)

\* the parser again, with the scheduling of a sequential program: a Feed call
\* that has been entered runs its loop to the end and returns
SpecParseLive ==
    /\ InitParse
    /\ [][ParseNext]_vars
    /\ WF_vars(FeedIter /\ UNCHANGED notParse)
    /\ WF_vars(FeedEnd /\ UNCHANGED notParse)

\* the segmenter alone, run over the parts of a MarkupText
InitSeg == SegInit /\ ParseIdle /\ WrapIdle /\ DrawIdle /\ ImageIdle /\ PresentIdle
SpecSeg == InitSeg /\ [][SegNext]_vars

\* Draw, from the size search to the last line rendered
InitDraw == DrawInit /\ ParseIdle /\ WrapIdle /\ SegIdle /\ ImageIdle /\ PresentIdle
SpecDraw == InitDraw /\ [][DrawNext]_vars

\* positionImage, called on a source rectangle, a box and the alignments
InitImage == ImageInit /\ ParseIdle /\ WrapIdle /\ SegIdle /\ DrawIdle /\ PresentIdle
SpecImage == InitImage /\ [][ImageNext]_vars

\* main: the file is parsed into a presentation, then the events are handled
InitPresent ==
    PresentInit /\ ParseIdle /\ WrapIdle /\ SegIdle /\ DrawIdle /\ ImageIdle
SpecPresent == InitPresent /\ [][PresentNext]_vars

-----------------------------------------------------------------------------
(* Properties of the line wrapper, checked under SpecWrap *)

\* the items yielded so far hold no overflow sentinel
NoOverflow == \A i \in 1..Len(yielded) : yielded[i].kind # "overflow"

\* the text the yielded items stand for: the parts of every line, and a
\* newline character for every newline sentinel
RECURSIVE Render(_)
Render(items) ==
    IF items = <<>> THEN <<>>
    ELSE (IF Head(items).kind = "line" THEN String(Head(items).text)
          ELSE IF Head(items).kind = "newline" THEN <<NL>>
          ELSE <<>>) \o Render(Tail(items))

\* C1: every line yielded by the wrapper, other than the overflow sentinel,
\* has a measured width that, rounded up to whole pixels, is at most the box
\* width; also a line started by an atom moved there after a soft wrap.
C1_WrapWidth ==
    \A i \in 1..Len(yielded) :
        yielded[i].kind # "overflow" => Ceil(yielded[i].w) <= box

\* C2: when the wrap has ended without an overflow sentinel, the text of the
\* yielded lines, in order (a newline sentinel standing for its newline
\* character), is the text of the input atoms less the whitespace atoms
\* dropped after a soft break; text before a newline in an atom is not lost.
C2_WrapComplete ==
    (wpc = "done" /\ NoOverflow) => Render(yielded) = kept

\* the input is one atom, without a newline, wider than the box
SingleWideAtom ==
    /\ Len(words(m)) = 1
    /\ IndexNL(words(m)[1].word, 1) = 0
    /\ Ceil(measureText(words(m)[1].attr, words(m)[1].word, size)) > box

\* C3: wrapping a single atom (without newline) wider than the box yields
\* exactly one item, the overflow sentinel; and in general the overflow
\* sentinel is the last item yielded: the generator has returned after it.
C3_OverflowStops ==
    /\ \A i \in 1..Len(yielded) :
          yielded[i].kind = "overflow" =>
              /\ i = Len(yielded)
              /\ wpc = "done"
              /\ yielded[i].w = 0 - 1
              /\ yielded[i].text = <<>>
    /\ (wpc = "done" /\ SingleWideAtom) => yielded = <<OverflowItem>>

\* C3 witness: a single wide atom has been wrapped, and the sentinel is all
\* that came out
C3_Witness ==
    /\ wpc = "done"
    /\ SingleWideAtom
    /\ yielded = <<OverflowItem>>

\* the number of newline characters in a text
RECURSIVE CountNL(_)
CountNL(t) ==
    IF t = <<>> THEN 0
    ELSE (IF Head(t) = NL THEN 1 ELSE 0) + CountNL(Tail(t))

\* the number of newline characters in a sequence of atoms
RECURSIVE CountAtomNL(_)
CountAtomNL(as) ==
    IF as = <<>> THEN 0 ELSE CountNL(Head(as).word) + CountAtomNL(Tail(as))

\* the number of newline sentinels among yielded items
RECURSIVE CountBreaks(_)
CountBreaks(items) ==
    IF items = <<>> THEN 0
    ELSE (IF Head(items).kind = "newline" THEN 1 ELSE 0) + CountBreaks(Tail(items))

\* C24: every newline character of the atom sequence becomes a hard break:
\* when the wrap has ended without overflow, the number of newline
\* sentinels yielded is the number of newline characters in the input atoms
\* (several newlines inside one atom included), and no yielded line holds a
\* newline character in its text.
C24_NewlineBreaks ==
    (wpc = "done" /\ NoOverflow) =>
        /\ CountBreaks(yielded) = CountAtomNL(words(m))
        /\ \A i \in 1..Len(yielded) : CountNL(String(yielded[i].text)) = 0

\* what is left of a word after its first newline character
RECURSIVE AfterNL(_)
AfterNL(w) ==
    IF w = <<>> THEN <<>>
    ELSE IF Head(w) = NL THEN Tail(w) ELSE AfterNL(Tail(w))

\* the wrapper takes the next atom, and the atom holds a newline character
TakesBreak ==
    /\ wpc = "loop" /\ atoms # <<>> /\ atoms' = Tail(atoms)
    /\ CountNL(Head(atoms).word) > 0

\* the remainder of the atom, when there is one, is what the wrapper goes on
\* with, from an empty buffer: it starts the line, or alone overflows
Continued(a, n) ==
    LET rest == AfterNL(a.word) IN
    IF rest = <<>>
    THEN Len(yielded') = n /\ line' = <<>> /\ width' = 0
    ELSE IF Ceil(measureText(a.attr, rest, size)) <= box
    THEN /\ Len(yielded') = n
         /\ line' = <<[Attr |-> a.attr, Text |-> rest]>>
         /\ width' = measureText(a.attr, rest, size)
    ELSE /\ Len(yielded') = n + 1
         /\ yielded'[n + 1].kind = "overflow"

\* C25: when the wrapper meets an atom that holds a newline, it first yields
\* the current line buffer as a completed line, also when the buffer is
\* empty, yields the newline sentinel right after it, empties the buffer and
\* the width, and goes on with what follows the newline in the atom.
C25_HardBreak ==
    [][TakesBreak =>
        LET n == Len(yielded) IN
        /\ Len(yielded') >= n + 2
        /\ SubSeq(yielded', 1, n) = yielded
        /\ yielded'[n + 1] = LineItem(width, line)
        /\ yielded'[n + 2] = NewlineItem
        /\ Continued(Head(atoms), n + 2)]_vars

\* C25 witness: an atom that begins with a newline met an empty buffer: the
\* empty line and the sentinel were yielded, and the rest of the atom has
\* started the next line
C25_Witness ==
    /\ wpc = "loop"
    /\ yielded = <<LineItem(0, <<>>), NewlineItem>>
    /\ line # <<>>

\* the height of yielded items, by what the wrapper meant by each: the
\* blank-line spacing for a newline sentinel, the measured height of its
\* parts for a line (nothing for a line without parts)
RECURSIVE KindHeight(_, _)
KindHeight(items, sz) ==
    IF items = <<>> THEN 0
    ELSE (IF Head(items).kind = "newline" THEN 64 * (sz * NewlineSpacing)
          ELSE height(Head(items).text, sz).h)
         + KindHeight(Tail(items), sz)

\* C26: the total height of a wrap adds the blank-line spacing (the size
\* scaled by the newline-spacing factor) exactly once for every newline
\* sentinel and the measured height of the line for every other yielded
\* item; an empty line buffer that is yielded is no further line break.
C26_BlankSpacing ==
    (wpc = "done" /\ NoOverflow) =>
        totalHeight(m, box, size).h = KindHeight(yielded, size)

\* an atom of whitespace characters only
WhiteAtom(w) == \A j \in 1..Len(w) : w[j] \in {SP, NL, TAB}

\* the wrapper takes the next atom, the atom has no newline, the line is not
\* empty, and with the atom it would exceed the width of the box
TakesSoft ==
    /\ wpc = "loop" /\ atoms # <<>> /\ atoms' = Tail(atoms)
    /\ CountNL(Head(atoms).word) = 0
    /\ line # <<>>
    /\ Ceil(width + measureText(Head(atoms).attr, Head(atoms).word, size)) > box

\* C27: when adding an atom would exceed the width of the box and the
\* current line is not empty, the wrapper yields the current line; an
\* overflowing whitespace atom is dropped, and an overflowing atom that is
\* not whitespace becomes the first atom of the new line.
C27_SoftWrap ==
    [][TakesSoft =>
        /\ yielded' = Append(yielded, LineItem(width, line))
        /\ IF WhiteAtom(Head(atoms).word)
           THEN line' = <<>> /\ width' = 0
           ELSE line' = <<[Attr |-> Head(atoms).attr,
                           Text |-> Head(atoms).word]>>]_vars

\* the wrapper takes the next atom, and the atom has no newline
TakesWord ==
    /\ wpc = "loop" /\ atoms # <<>> /\ atoms' = Tail(atoms)
    /\ CountNL(Head(atoms).word) = 0

\* the atom has been appended to the current line, and nothing was yielded
Appended(a) ==
    /\ yielded' = yielded
    /\ line' = Append(line, [Attr |-> a.attr, Text |-> a.word])
    /\ width' = width + measureText(a.attr, a.word, size)

\* C28: an atom is appended to the current line exactly when the width
\* accumulated so far plus the width of the atom, rounded up to whole
\* pixels, is at most the width of the box: a line that fills the box to the
\* last pixel is accepted, without a wrap and without overflow.
C28_FitsRoundedUp ==
    [][TakesWord =>
        (Appended(Head(atoms)) <=>
            Ceil(width + measureText(Head(atoms).attr, Head(atoms).word, size))
                <= box)]_vars

\* C28 witness: a second atom has been appended to a line that, with it,
\* fills the box to the last pixel, and nothing has been yielded
C28_Witness ==
    /\ wpc = "loop"
    /\ yielded = <<>>
    /\ Len(line) >= 2
    /\ Ceil(width) = box

\* C29: on every input without overflow the wrap sequence is finite, and its
\* last item is the final line buffer, yielded also when it is empty:
\* wrapping no atoms at all yields exactly one empty line.  A traversal that
\* is ranged over comes to its end.
C29_FinalLine ==
    /\ []((wpc = "done" /\ NoOverflow) =>
            /\ yielded # <<>>
            /\ yielded[Len(yielded)] = LineItem(width, line))
    /\ []((wpc = "done" /\ words(m) = <<>>) => yielded = <<LineItem(0, <<>>)>>)
    /\ (wpc = "loop" ~> wpc = "done")

\* C29 witness: a wrap has ended, without overflow, after a line and a
\* newline sentinel, on a final buffer that is empty
C29_Witness ==
    /\ wpc = "done" /\ NoOverflow
    /\ Len(yielded) = 3
    /\ yielded[1].text # <<>>
    /\ yielded[2] = NewlineItem
    /\ yielded[3] = LineItem(0, <<>>)

\* C30: the wrapper is restartable and free of side effects: invoked again
\* with the same runs, box and size it yields the same (width, line) items
\* in the same order, whether the invocation before was ranged over to its
\* end or left early; every traversal that comes to its end has yielded the
\* lines that both the height pass and the render pass of Draw range over.
C30_Restartable ==
    /\ calls >= 2 =>
          /\ \A i \in 1..Min0(Len(yielded), Len(seen.items)) :
                yielded[i] = seen.items[i]
          /\ (wpc = "done" /\ seen.done) => yielded = seen.items
    /\ wpc = "done" => yielded = wrapLines(m, box, size)

\* C30 witness: a traversal was left after its first item, and the next one
\* has run to its end and yielded more than two items
C30_Witness ==
    /\ calls = 2
    /\ wpc = "done"
    /\ ~seen.done
    /\ Len(seen.items) = 1
    /\ Len(yielded) > 2

-----------------------------------------------------------------------------
(* Properties of the word segmenter, checked under SpecSeg *)

\* the text a `b c` d, the backquotes being the Code marker
CodeSpan == <<"a", SP, BT, "b", SP, "c", BT, SP, "d">>

\* the runs the documentation gives for it
CodeSpanRuns ==
    << [Attr |-> {}, Text |-> <<"a", SP>>],
       [Attr |-> {Code}, Text |-> <<"b", SP, "c">>],
       [Attr |-> {}, Text |-> <<SP, "d">>] >>

\* a style the documentation calls opaque among those of the source
DocOpaque(a) == Code \in a \/ BigText \in a

\* C11: a run whose style is opaque (Code or BigText) is emitted by the
\* segmenter as exactly one atom that carries the text of the run verbatim,
\* not split at whitespace; a `b c` d parses to the runs (none, "a "),
\* (Code, "b c"), (none, " d") and the Code run becomes the one atom "b c".
C11_OpaqueAtom ==
    /\ \A i \in 1..Len(segs) :
          DocOpaque(sm[i].Attr) =>
              segs[i] = <<[attr |-> sm[i].Attr, word |-> sm[i].Text]>>
    /\ sm = Parse(CodeSpan) =>
          /\ sm = CodeSpanRuns
          /\ Len(segs) >= 2 =>
                segs[2] = <<[attr |-> {Code}, word |-> <<"b", SP, "c">>]>>

\* C11 witness: the runs of a `b c` d have been segmented, and the Code run
\* gave the one atom "b c"
C11_Witness ==
    /\ spc = "done"
    /\ sm = CodeSpanRuns
    /\ segs[2] = <<[attr |-> {Code}, word |-> <<"b", SP, "c">>]>>

\* whitespace, as the documentation of the segmenter means it
White(r) == r \in {SP, NL, TAB}

\* the texts of the atoms of one part, concatenated
RECURSIVE AtomText(_)
AtomText(as) == IF as = <<>> THEN <<>> ELSE Head(as).word \o AtomText(Tail(as))

\* all characters of a word are whitespace, or none is
Uniform(w) == \A j \in 1..Len(w) : White(w[j]) = White(w[1])

\* C12: for every run, the texts of the atoms yielded for it, concatenated
\* in order, are the text of the run; for a run that is not opaque the atoms
\* are the maximal alternating spans of whitespace and non-whitespace, each
\* non-empty and carrying the style of the run.
C12_AtomsRebuildRun ==
    \A i \in 1..Len(segs) :
        /\ AtomText(segs[i]) = sm[i].Text
        /\ ~DocOpaque(sm[i].Attr) =>
              /\ \A k \in 1..Len(segs[i]) :
                    /\ segs[i][k].word # <<>>
                    /\ segs[i][k].attr = sm[i].Attr
                    /\ Uniform(segs[i][k].word)
              /\ \A k \in 1..(Len(segs[i]) - 1) :
                    White(segs[i][k].word[1]) # White(segs[i][k + 1].word[1])

\* C12 witness: a run that is not opaque has been split into more than two
\* atoms, one of them longer than a character
C12_Witness ==
    \E i \in 1..Len(segs) :
        /\ ~DocOpaque(sm[i].Attr)
        /\ Len(segs[i]) >= 3
        /\ \E k \in 1..Len(segs[i]) : Len(segs[i][k].word) >= 2

-----------------------------------------------------------------------------
(* Properties of the size search of Draw, checked under SpecDraw *)

\* the items hold the overflow sentinel
Sentinel(items) == \E k \in 1..Len(items) : items[k].kind = "overflow"

\* the height of wrapped lines: the height of every line, and the newline
\* spacing scaled by the size for every nil text
RECURSIVE LinesHeight(_, _)
LinesHeight(items, sz) ==
    IF items = <<>> THEN 0
    ELSE (IF Head(items).text = <<>> THEN 64 * (sz * NewlineSpacing)
          ELSE height(Head(items).text, sz).h)
         + LinesHeight(Tail(items), sz)

\* the fit predicate at a candidate size: wrapping at that size gives no
\* overflow sentinel, and the total height, in whole pixels, is below the
\* height of the box
Fit(c) ==
    LET items == wrapLines(dm, dbox.dx, c) IN
    ~Sentinel(items) /\ Ceil(LinesHeight(items, c)) < dbox.dy

\* C13: when the search returns, the size it returns satisfies the fit
\* predicate, it is one of the candidates tested (or 0 when none was kept),
\* and no candidate the search has tested that is larger than the size
\* returned satisfies it.
C13_LargestTested ==
    dpc = "place" =>
        /\ dsize = 0 \/ \E k \in 1..Len(tested) : tested[k] = dsize
        /\ dsize >= 1 => Fit(dsize)
        /\ \A k \in 1..Len(tested) : tested[k] > dsize => ~Fit(tested[k])

\* C13 witness: the search has returned a size above 1 after it tested a
\* larger candidate
C13_Witness ==
    /\ dpc = "place"
    /\ dsize >= 2
    /\ \E k \in 1..Len(tested) : tested[k] > dsize

\* the first k candidates tested all fit
AllFit(k) == \A j \in 1..k : Fit(tested[j])

\* C14: the search starts at size 1 and doubles the candidate while the
\* candidate fits; the last candidate that fit is the lower bound and the
\* first that failed the upper bound; then candidates are scanned upward from
\* the lower bound in steps of half a unit, and the largest candidate that
\* fits is returned.
C14_DoublingSearch ==
    /\ tested # <<>> => tested[1] = 1
    /\ \A k \in 1..(Len(tested) - 1) :
          AllFit(k) => tested[k + 1] = 2 * tested[k]
    /\ \A k \in 2..Len(tested) :
          (AllFit(k - 1) /\ ~Fit(tested[k])) =>
              \A j \in (k + 1)..Len(tested) :
                  2 * tested[j] = 2 * tested[k - 1] + (j - k - 1)
    /\ dpc # "search" =>
          \A k \in 1..Len(tested) : Fit(tested[k]) => tested[k] <= dsize

\* C15: when wrapping at size 1 gives the overflow sentinel or a height that
\* does not fit the box, the search returns size 0 and total height 0.
C15_Degenerate ==
    (dpc # "search" /\ ~Fit(1)) => (dsize = 0 /\ totalH = 0)

\* C15 witness: size 1 gives the overflow sentinel, and Draw has run to its
\* end with size 0
C15_Witness ==
    /\ dpc = "done"
    /\ Sentinel(wrapLines(dm, dbox.dx, 1))
    /\ dsize = 0
    /\ totalH = 0

\* the diagonal of the box, in whole pixels, rounded down
Diagonal ==
    CHOOSE d \in 0..(dbox.dx + dbox.dy) :
        d * d <= dbox.dx * dbox.dx + dbox.dy * dbox.dy
        /\ (d + 1) * (d + 1) > dbox.dx * dbox.dx + dbox.dy * dbox.dy

\* C16: when cfg.FontSize is not zero, Draw does not run the size search: no
\* candidate is tested, and the size used is the configured percentage of the
\* diagonal of the box (to within the rounding of the diagonal).
C16_ExplicitSize ==
    cfg.FontSize # 0 =>
        /\ tested = <<>>
        /\ dpc \in {"lines", "done"} =>
              /\ 100 * dsize <= cfg.FontSize * (Diagonal + 1)
              /\ 100 * (dsize + 1) >= cfg.FontSize * Diagonal

-----------------------------------------------------------------------------
(* Properties of the render pass of Draw, checked under SpecDraw *)

\* the text __ab__cd and the runs it parses to
UnderlineAbCd == <<"_", "_", "a", "b", "_", "_", "c", "d">>
UnderlineAbCdRuns ==
    << [Attr |-> {Underline}, Text |-> <<"a", "b">>],
       [Attr |-> {}, Text |-> <<"c", "d">>] >>

\* C17: rendering __ab__cd at a size the search has found (so that glyphs
\* have an extent) draws exactly one rectangle; it is an underline, it spans
\* from the pen before "ab" to the pen after "ab", both converted to pixels,
\* and on a line that holds "cd" too it ends where "cd" begins.
C17_UnderlineSpan ==
    (dpc = "done" /\ dm = Parse(UnderlineAbCd) /\ dsize >= 1) =>
          /\ dm = UnderlineAbCdRuns
          /\ Len(drawn) = 2
          /\ drawn[1].text = <<"a", "b">>
          /\ Len(rects) = 1
          /\ rects[1].underline
          /\ rects[1].line = drawn[1].line
          /\ rects[1].x0 = dbox.min.x + Ceil(drawn[1].x0)
          /\ rects[1].x1 = dbox.min.x + Ceil(drawn[1].x1)
          /\ rects[1].x1 > rects[1].x0
          /\ drawn[2].line = drawn[1].line => drawn[2].x0 = drawn[1].x1

\* C17 witness: __ab__cd has been rendered on one line at a size found, with
\* one rectangle
C17_Witness ==
    /\ dpc = "done" /\ dm = UnderlineAbCdRuns /\ dsize >= 1
    /\ Len(rects) = 1
    /\ Len(drawn) = 2 /\ drawn[2].line = drawn[1].line

\* the text **Hello** _World_ and the runs it parses to
HelloWorld ==
    <<"*", "*", "H", "e", "l", "l", "o", "*", "*", SP,
      "_", "W", "o", "r", "l", "d", "_">>
HelloWorldRuns ==
    << [Attr |-> {Bold}, Text |-> <<"H", "e", "l", "l", "o">>],
       [Attr |-> {}, Text |-> <<SP>>],
       [Attr |-> {Italic}, Text |-> <<"W", "o", "r", "l", "d">>] >>

\* the box is wide enough for the text on one line at the size of Draw
RECURSIVE RunsWidth(_, _)
RunsWidth(mt, sz) ==
    IF mt = <<>> THEN 0
    ELSE measureText(Head(mt).Attr, Head(mt).Text, sz) + RunsWidth(Tail(mt), sz)

WideEnough == Ceil(RunsWidth(dm, dsize)) <= dbox.dx

\* **Hello** _World_ has been drawn in a box wide enough for one line
HelloWorldDrawn == dpc = "done" /\ dm = Parse(HelloWorld) /\ WideEnough

\* what is rendered of it: one line, with the atoms Hello (Bold), space (no
\* style), World (Italic), and no rectangle
HelloWorldRendered ==
        /\ lineNo = 1
        /\ Len(drawn) = 3
        /\ \A k \in 1..3 :
              /\ drawn[k].attr = HelloWorldRuns[k].Attr
              /\ drawn[k].text = HelloWorldRuns[k].Text
              /\ drawn[k].line = 1
        /\ rects = <<>>

\* C18, as claimed: **Hello** _World_ parses to two runs; in a box wide
\* enough, wrapping yields one line with exactly the atoms Hello (Bold),
\* space (no style), World (Italic), and no rectangle is drawn.
C18_TwoRuns ==
    HelloWorldDrawn => (Len(dm) = 2 /\ HelloWorldRendered)

\* C18, amended: **Hello** _World_ parses to three runs, (Bold, Hello),
\* (none, space), (Italic, World); in a box wide enough, wrapping yields one
\* line with exactly these three atoms, and no rectangle is drawn.
C18_ThreeRuns ==
    HelloWorldDrawn => (dm = HelloWorldRuns /\ HelloWorldRendered)

\* C18 witness: **Hello** _World_ has been rendered on one line at a size the
\* search has found
C18_Witness ==
    /\ dpc = "done" /\ dm = HelloWorldRuns /\ WideEnough
    /\ dsize >= 1
    /\ lineNo = 1 /\ Len(drawn) = 3


\* C31: on every line the underline run and the strikethrough run start
\* closed; a run is open after a part only when the part carries its flag
\* and holds no newline character (it is closed where a part without the
\* flag begins and at a newline), and when a line has been drawn both runs
\* are closed: no run carries over into the next line.
C31_RunsClosed ==
    /\ \A i \in 1..Len(ends) : ~ends[i].ul /\ ~ends[i].st
    /\ \A i \in 1..Len(drawn) :
          /\ drawn[i].ul <=>
                (Underline \in drawn[i].attr /\ CountNL(drawn[i].text) = 0)
          /\ drawn[i].st <=>
                (Strikethrough \in drawn[i].attr /\ CountNL(drawn[i].text) = 0)
    /\ \A i \in 1..Len(closes) : closes[i].active

\* C31 witness: the underline run was open after the last part of a line,
\* the line has been drawn, and another line after it
C31_Witness ==
    /\ dpc = "done"
    /\ Len(ends) >= 2
    /\ \E k \in 1..Len(drawn) :
          /\ drawn[k].ul
          /\ drawn[k].line = ends[1].line
          /\ \A j \in 1..Len(drawn) : drawn[j].line = drawn[k].line => j <= k

\* the calls of closeRun that returned a rectangle
OkClose(c) == c.ok
Emitted == SelectSeq(closes, OkClose)

\* C32: closing a run emits a rectangle if and only if the run was open and
\* the pen has advanced past the recorded start; every rectangle emitted
\* spans from the start to the pen, converted to pixels, and is more than
\* zero pixels wide (x1 > x0).
C32_RectOnAdvance ==
    /\ \A i \in 1..Len(closes) :
          closes[i].ok <=> (closes[i].active /\ closes[i].X > closes[i].start)
    /\ Len(rects) = Len(Emitted)
    /\ \A k \in 1..Len(rects) :
          /\ rects[k].x0 = dbox.min.x + Ceil(Emitted[k].start)
          /\ rects[k].x1 = dbox.min.x + Ceil(Emitted[k].X)
          /\ rects[k].x1 > rects[k].x0

\* the flag of the underline run (u) or of the strikethrough run
Flag(u) == IF u THEN Underline ELSE Strikethrough

\* the parts i..j are drawn on one line, one after the other, all carry the
\* flag, and neither the part before them nor the part after them on that
\* line does
Group(u, i, j) ==
    /\ i <= j
    /\ \A k \in i..j : drawn[k].line = drawn[i].line /\ Flag(u) \in drawn[k].attr
    /\ i = 1 \/ drawn[i - 1].line # drawn[i].line \/ Flag(u) \notin drawn[i - 1].attr
    /\ j = Len(drawn) \/ drawn[j + 1].line # drawn[i].line
          \/ Flag(u) \notin drawn[j + 1].attr

\* the groups of the line L over which the pen has advanced
Groups(u, L) ==
    { g \in (1..Len(drawn)) \X (1..Len(drawn)) :
        /\ drawn[g[1]].line = L
        /\ Group(u, g[1], g[2])
        /\ drawn[g[2]].x1 > drawn[g[1]].x0 }

\* the rectangles of a run drawn on the line L
RectsOn(u, L) ==
    { k \in 1..Len(rects) : rects[k].line = L /\ rects[k].underline = u }

\* no part of the line L holds a newline character: L is one visual line
OneVisualLine(L) ==
    \A k \in 1..Len(drawn) : drawn[k].line = L => CountNL(drawn[k].text) = 0

\* C33: consecutive atoms of one visual line that all carry the Underline
\* flag (or all the Strikethrough flag) produce exactly one rectangle, from
\* the pen before the first of them to the pen after the last of them, not
\* one for each atom: a run is opened only at a part that carries the flag
\* while the run is closed.
C33_OneRectPerGroup ==
    \A u \in BOOLEAN, e \in 1..Len(ends) :
        LET L == ends[e].line IN
        OneVisualLine(L) =>
            /\ Cardinality(RectsOn(u, L)) = Cardinality(Groups(u, L))
            /\ \A g \in Groups(u, L) : \E k \in RectsOn(u, L) :
                  /\ rects[k].x0 = dbox.min.x + Ceil(drawn[g[1]].x0)
                  /\ rects[k].x1 = dbox.min.x + Ceil(drawn[g[2]].x1)

\* C33 witness: two parts with the Underline flag have been drawn one after
\* the other on a line, and the line has one rectangle
C33_Witness ==
    \E e \in 1..Len(ends) :
        /\ OneVisualLine(ends[e].line)
        /\ \E g \in Groups(TRUE, ends[e].line) : g[2] > g[1]
        /\ Cardinality(RectsOn(TRUE, ends[e].line)) = 1

\* the part k is the first one drawn on its line
FirstOfLine(k) == k = 1 \/ drawn[k - 1].line # drawn[k].line

\* the width the wrapper has measured for the L-th item it yields at the
\* size chosen, in 1/64 pixel
MeasuredWidth(L) == wrapLines(dm, dbox.dx, dsize)[L].w

\* the total height of the size chosen, in 1/64 pixel: 0 when no size fits
ChosenHeight == IF dsize = 0 THEN 0 ELSE totalHeight(dm, dbox.dx, dsize).h

\* C34: the pen of every rendered line starts at X = 0 for Left, at the box
\* width/2 minus the measured width of that line/2 for Center, and at the box
\* width minus that measured width for Right; the block starts at Y = 0 for
\* Top, at the box height/2 minus the total height/2 for Middle and at the
\* box height minus the total height for Bottom, computed before the first
\* line from the total height of the size chosen. (Positions in 1/64 pixel;
\* the halves are the integer halves the code takes.)
C34_StartingPen ==
    /\ \A k \in 1..Len(drawn) :
          FirstOfLine(k) =>
              LET w == MeasuredWidth(drawn[k].line) IN
              /\ cfg.Align = "Left" => drawn[k].x0 = 0
              /\ cfg.Align = "Center" =>
                    drawn[k].x0 = 64 * (dbox.dx \div 2) - w \div 2
              /\ cfg.Align = "Right" => drawn[k].x0 = 64 * dbox.dx - w
    /\ (dpc = "lines" /\ lineNo = 0) =>
          /\ cfg.VAlign = "Top" => yOffset = 0
          /\ cfg.VAlign = "Middle" =>
                yOffset = 64 * (dbox.dy \div 2) - ChosenHeight \div 2
          /\ cfg.VAlign = "Bottom" => yOffset = 64 * dbox.dy - ChosenHeight

\* C34 witness: a second line has been rendered, right-aligned with its pen
\* starting right of 0, in a block that was placed below the top of the box
C34_Witness ==
    /\ cfg.Align = "Right" /\ cfg.VAlign = "Bottom"
    /\ dsize >= 1
    /\ 64 * dbox.dy - ChosenHeight > 0
    /\ \E k \in 2..Len(drawn) : FirstOfLine(k) /\ drawn[k].x0 > 0

\* the part k is the last one drawn on its line
LastOfLine(k) == k = Len(drawn) \/ drawn[k + 1].line # drawn[k].line

\* C35: for every line rendered, the distance the pen advances from the
\* start of the line to its end (glyph advances, kerning, tabs) is the width
\* the wrapper has measured for the line.
C35_AdvanceIsWidth ==
    \A e \in 1..Len(ends) : \A k, j \in 1..Len(drawn) :
        (/\ drawn[k].line = ends[e].line /\ FirstOfLine(k)
         /\ drawn[j].line = ends[e].line /\ LastOfLine(j)) =>
            drawn[j].x1 - drawn[k].x0 = MeasuredWidth(ends[e].line)

\* the offset the block was placed at before the first line, by cfg.VAlign
BlockStart ==
    IF cfg.VAlign = "Top" THEN 0
    ELSE IF cfg.VAlign = "Middle"
    THEN 64 * (dbox.dy \div 2) - ChosenHeight \div 2
    ELSE 64 * dbox.dy - ChosenHeight

\* C36: when Draw has rendered every line, the vertical distance the render
\* pass has advanced from the offset of the block is the total height the
\* height pass has computed at the size chosen.
C36_AdvanceIsHeight ==
    dpc = "done" => yOffset - BlockStart = ChosenHeight

\* the glyph g lies within the horizontal span of a rectangle of the run (u)
\* drawn on its visual row, its two ends rounded to pixels as closeRun rounds
\* the ends of a run
Covered(g, u) ==
    \E k \in 1..Len(rects) :
        /\ rects[k].underline = u
        /\ rects[k].line = g.line /\ rects[k].row = g.row
        /\ rects[k].x0 - dbox.min.x <= Ceil(g.x0)
        /\ Ceil(g.x1) <= rects[k].x1 - dbox.min.x

\* C37: when Draw has rendered every line, every glyph drawn from a part
\* that carries the Underline flag (the Strikethrough flag) lies within the
\* horizontal span of an underline (strikethrough) rectangle, the glyphs that
\* follow a newline character inside the part too.
C37_GlyphsCovered ==
    dpc = "done" =>
        \A i \in 1..Len(glyphs) : \A u \in BOOLEAN :
            (Flag(u) \in glyphs[i].attr /\ glyphs[i].x1 > glyphs[i].x0) =>
                Covered(glyphs[i], u)

\* C38: after the size search, the size chosen is a whole number in 0..99;
\* the sizes 1, 2, ... up to it have been tested in that order, and each of
\* them gave no overflow sentinel and a total height whose ceiling is
\* strictly less than the box height; the total height recorded is the one
\* of the size chosen (0 when the size is 0).
C38_ChosenSize ==
    dpc # "search" =>
        /\ dsize \in 0..(SizeLimit - 1)
        /\ Len(tested) >= dsize
        /\ \A c \in 1..dsize :
              /\ tested[c] = c
              /\ ~Sentinel(wrapLines(dm, dbox.dx, c))
              /\ Ceil(LinesHeight(wrapLines(dm, dbox.dx, c), c)) < dbox.dy
        /\ totalH = IF dsize = 0 THEN 0
                    ELSE LinesHeight(wrapLines(dm, dbox.dx, dsize), dsize)

\* C38 witness: Draw has run to its end with a size above 2 and a total
\* height above 0, after the search was left at a candidate that failed
C38_Witness ==
    /\ dpc = "done"
    /\ dsize >= 3
    /\ totalH > 0
    /\ Len(tested) = dsize + 1

-----------------------------------------------------------------------------
(* Properties of the markup parser, checked under SpecParse *)

\* the whole input has been fed, in one Feed call, and Feed has returned
FedAtOnce == pc = "idle" /\ pending = <<>> /\ fed = <<input>>

\* the whole input has been fed, in any number of Feed calls with no Reset
\* after the first of them, and Feed has returned
FedAll == pc = "idle" /\ pending = <<>> /\ Concat(fed) = input

\* the last thing that happened in Feed is an iteration of its loop
Stepped == prev.content # <<>>

\* a text without markup: no marker character, no pair ~~ or ==, no backslash
Plain(t) ==
    /\ \A i \in 1..Len(t) : t[i] \notin {"*", "_", BT, BS}
    /\ \A i \in 1..(Len(t) - 1) :
          ~(t[i] = t[i + 1] /\ t[i] \in {"~", "="})

\* a text less its leading newline characters
RECURSIVE StripNewlines(_)
StripNewlines(t) ==
    IF t # <<>> /\ Head(t) = NL THEN StripNewlines(Tail(t)) ELSE t

\* C4, as claimed: a text without markup, fed to a fresh parser and
\* finalized, comes back unchanged as the concatenation of the run texts.
C4_RoundTrip ==
    (FedAtOnce /\ ret.valid /\ Plain(input)) => String(ret.out) = input

\* C4, amended: a text without markup (no marker, no backslash), fed to a
\* fresh parser in any chunks and finalized, comes back as the concatenation
\* of the run texts with only its leading newline characters removed.
C4_RoundTripStripped ==
    (FedAll /\ ret.valid /\ Plain(input)) =>
        String(ret.out) = StripNewlines(input)

\* C4 witness: a text that starts with a newline and goes on has been fed and
\* finalized
C4_Witness ==
    /\ FedAll /\ ret.valid /\ Plain(input)
    /\ input # <<>> /\ Head(input) = NL
    /\ String(ret.out) # <<>>

\* the marker at the head of a text, two-character markers first, and its
\* flag, as the documentation of the markup lists them
DocMarker(c) ==
    IF HasPrefix(c, <<"*", "*">>) THEN [flag |-> Bold, n |-> 2]
    ELSE IF HasPrefix(c, <<"_", "_">>) THEN [flag |-> Underline, n |-> 2]
    ELSE IF HasPrefix(c, <<"~", "~">>) THEN [flag |-> Strikethrough, n |-> 2]
    ELSE IF HasPrefix(c, <<"=", "=">>) THEN [flag |-> BigText, n |-> 2]
    ELSE IF HasPrefix(c, <<BT>>) THEN [flag |-> Code, n |-> 1]
    ELSE IF HasPrefix(c, <<"*">>) \/ HasPrefix(c, <<"_">>) THEN [flag |-> Italic, n |-> 1]
    ELSE [flag |-> Code, n |-> 0]

\* the input is **X**Y with X and Y plain and not empty
BoldThenPlain(t, x, y) ==
    /\ Plain(x) /\ Plain(y) /\ x # <<>> /\ y # <<>>
    /\ t = <<"*", "*">> \o x \o <<"*", "*">> \o y

\* C5: a marker met by the loop outside a Code span toggles exactly its own
\* flag, two-character markers before one-character ones, consumes exactly
\* the marker and changes no other flag; and **X**Y with plain non-empty X
\* and Y, fed at once, parses to exactly the runs (Bold, X), (none, Y).
C5_Toggle ==
    /\ (Stepped /\ Code \notin prev.b.state /\ DocMarker(prev.content).n > 0) =>
          /\ b.state = Xor(prev.b.state, DocMarker(prev.content).flag)
          /\ content = Drop(prev.content, DocMarker(prev.content).n)
    /\ FedAtOnce =>
          \A i \in 3..(Len(input) - 3) :
              BoldThenPlain(input, SubSeq(input, 3, i), Drop(input, i + 2)) =>
                  b.out = << [Attr |-> {Bold}, Text |-> SubSeq(input, 3, i)],
                             [Attr |-> {}, Text |-> Drop(input, i + 2)] >>

\* C5 witness: **ab**cd has been fed at once and gave (Bold, ab), (none, cd)
C5_Witness ==
    /\ FedAtOnce
    /\ input = <<"*", "*", "a", "b", "*", "*", "c", "d">>
    /\ b.out = << [Attr |-> {Bold}, Text |-> <<"a", "b">>],
                  [Attr |-> {}, Text |-> <<"c", "d">>] >>

\* C6: a backslash followed by one of * _ ~ = @ backquote backslash (and not
\* by a two-character marker) emits exactly that character into the current
\* run, consumes exactly two input characters and leaves the style state and
\* the output alone.
C6_SingleEscape ==
    (/\ Stepped
     /\ Len(prev.content) >= 2
     /\ prev.content[1] = BS
     /\ prev.content[2] \in {"*", "_", "~", "=", "@", BT, BS}
     /\ DocMarker(Tail(prev.content)).n # 2) =>
        /\ b.buf = Append(prev.b.buf, prev.content[2])
        /\ content = Drop(prev.content, 2)
        /\ b.state = prev.b.state
        /\ b.out = prev.b.out

\* the input backslash-star backslash-star a backslash-star backslash-star
EscapedStars == <<BS, "*", BS, "*", "a", BS, "*", BS, "*">>

\* C7: parsing backslash-star backslash-star a backslash-star backslash-star
\* yields exactly one run, with no style flag and the text **a**.
C7_EscapeFidelity ==
    (FedAtOnce /\ ret.valid /\ input = EscapedStars) =>
        ret.out = << [Attr |-> {}, Text |-> <<"*", "*", "a", "*", "*">>] >>

\* C7 witness: the input has been fed at once and finalized
C7_Witness ==
    /\ FedAtOnce /\ ret.valid /\ input = EscapedStars
    /\ Len(ret.out) = 1

\* C8: the end of a Feed call appends nothing to the output: the runs after
\* feeding a text in chunks are the runs after feeding the concatenation of
\* the chunks in one chunk, and no two adjacent runs carry the same flags.
C8_ChunkingInvisible ==
    pc = "idle" =>
        /\ b.out = FeedAll(NewBuilder, Concat(fed)).out
        /\ \A i \in 1..(Len(b.out) - 1) : b.out[i].Attr # b.out[i + 1].Attr

\* Feed has just been entered: the chunk is trimmed or not, no iteration yet
Entered == pc = "feed" /\ prev.content = <<>>

\* the chunk handed to the current Feed call
Chunk == fed[Len(fed)]

\* C9, as claimed: leading newlines are stripped from the first chunk fed to
\* a fresh or Reset parser only; every later chunk keeps its leading
\* newlines, whatever the earlier chunks produced.
C9_FirstChunkOnly ==
    Entered =>
        content = IF Len(fed) = 1 THEN StripNewlines(Chunk) ELSE Chunk

\* C9, amended: leading newlines are stripped from every chunk fed while the
\* parser holds no output run and has no style active (so also from a later
\* chunk, when the earlier ones were only newlines, or ****); once a run has
\* been output or a style is active, a chunk keeps its leading newlines.
C9_StripWhileClean ==
    Entered =>
        content = IF entry.out = <<>> /\ entry.state = {}
                  THEN StripNewlines(Chunk) ELSE Chunk

\* C9 witness: Feed has been entered with a later chunk that starts with a
\* newline, and its leading newlines have been stripped
C9_Witness ==
    /\ Entered /\ Len(fed) >= 2
    /\ Head(Chunk) = NL
    /\ content # Chunk

\* the builder after emit: the buffered text, when there is any, is the last
\* run of the output, with the flags active at that point
Flushed(before, after) ==
    /\ after.buf = <<>>
    /\ after.state = before.state
    /\ after.out = IF before.buf = <<>> THEN before.out
                   ELSE Append(before.out,
                               [Attr |-> before.state, Text |-> before.buf])

\* C19: parsing terminates on every input and does not fail: every iteration
\* of the Feed loop consumes at least one character of the content, a Feed
\* call that has been entered returns, whatever markers are left open, and at
\* the end of Feed and at Text the buffered text is flushed as a run with the
\* flags active at that point.
C19_Terminates ==
    /\ [](Stepped => Len(content) < Len(prev.content))
    /\ [][(pc = "feed" /\ pc' = "idle") => Flushed(b, b')]_vars
    /\ [][(ret'.valid /\ ~ret.valid) =>
            (Flushed(b, b') /\ ret'.out = b'.out)]_vars
    /\ (pc = "feed" ~> pc = "idle")

\* C19 witness: **a, whose marker is never closed, has been fed and finalized:
\* the text came out as a Bold run
C19_Witness ==
    /\ FedAll /\ ret.valid
    /\ input = <<"*", "*", "a">>
    /\ ret.out = <<[Attr |-> {Bold}, Text |-> <<"a">>]>>

\* the characters the markers **, __, ~~, ==, * and _ are made of
MarkerChars == {"*", "_", "~", "="}

\* the last iteration appended the character at the head of the content to
\* the current run as literal text, and did nothing else
Literal ==
    /\ b.buf = Append(prev.b.buf, Head(prev.content))
    /\ content = Tail(prev.content)
    /\ b.state = prev.b.state
    /\ b.out = prev.b.out

\* C21: while the Code flag is active, the characters of the markers **, __,
\* ~~, ==, * and _ are emitted as literal text and change no style flag; the
\* only marker recognised is the Code marker, and it ends the Code span: no
\* iteration inside a Code span changes another flag.
C21_CodeLiteral ==
    (Stepped /\ pc = "feed" /\ Code \in prev.b.state) =>
        /\ Head(prev.content) \in MarkerChars => Literal
        /\ Head(prev.content) = BT =>
              /\ b.state = prev.b.state \ {Code}
              /\ content = Tail(prev.content)
        /\ b.state # prev.b.state => Head(prev.content) = BT

\* C21 witness: inside a Code span the second character of a pair == has
\* been appended to the run, after the first
C21_Witness ==
    /\ Stepped /\ pc = "feed" /\ Code \in prev.b.state
    /\ HasPrefix(prev.content, <<"=">>)
    /\ b.buf = <<"=", "=">>
    /\ Code \in b.state

\* the content of the last iteration began with a backslash and a
\* two-character marker
EscapedPair ==
    /\ Len(prev.content) >= 3
    /\ prev.content[1] = BS
    /\ prev.content[2] = prev.content[3]
    /\ prev.content[2] \in MarkerChars

\* C22: outside a Code span, a backslash followed by a two-character marker
\* (**, __, ~~, ==) emits the two marker characters as text, consumes
\* exactly three input characters and changes no style flag and no output
\* run: the case is taken before the one-character escapes and the markers.
C22_PairEscape ==
    (Stepped /\ pc = "feed" /\ Code \notin prev.b.state /\ EscapedPair) =>
        /\ b.buf = prev.b.buf \o SubSeq(prev.content, 2, 3)
        /\ content = Drop(prev.content, 3)
        /\ b.state = prev.b.state
        /\ b.out = prev.b.out

\* C22 witness: backslash-star-star, the whole content, has been consumed in
\* one iteration and left two stars in the buffer
C22_Witness ==
    /\ Stepped /\ pc = "feed" /\ Code \notin prev.b.state /\ EscapedPair
    /\ prev.content[2] = "*"
    /\ b.buf = <<"*", "*">>
    /\ content = <<>>

\* C23: after any sequence of Feed, Text and Reset calls, and at every point
\* inside Feed, no run of the output has an empty text; neither has a run
\* of the MarkupText that Text returned.
C23_NoEmptyRun ==
    /\ \A i \in 1..Len(b.out) : b.out[i].Text # <<>>
    /\ \A i \in 1..Len(ret.out) : ret.out[i].Text # <<>>

\* C23 witness: star-a-star has been fed one character at a time and
\* finalized: emit was called with an empty buffer at the first star, at the
\* end of every Feed but the second and at Text, and one run came out
C23_Witness ==
    /\ FedAll /\ ret.valid
    /\ input = <<"*", "a", "*">>
    /\ Len(fed) = 3
    /\ Len(ret.out) = 1

\* the flag the documentation gives the marker @
NoWrap == "NoWrap"

\* the character before the current position of the last iteration is not a
\* backslash
NotAfterBackslash ==
    LET k == Len(Chunk) - Len(prev.content) IN
    k >= 1 => Chunk[k] # BS

\* C10: an unescaped @ outside a Code span toggles the NoWrap flag, and the
\* run it opens is opaque: the segmenter does not split the text between a
\* pair of @ at its whitespace.
C10_NoWrapOpaque ==
    /\ (Stepped /\ Head(prev.content) = "@" /\ Code \notin prev.b.state
            /\ NotAfterBackslash) =>
          b.state = Xor(prev.b.state, NoWrap)
    /\ (FedAtOnce /\ input = <<"@", "a", SP, "b", "@">>) =>
          \E i \in 1..Len(words(b.out)) :
              words(b.out)[i].word = <<"a", SP, "b">>

-----------------------------------------------------------------------------
(* Properties of positionImage, checked under SpecImage *)

\* the rectangle r does not exceed the rectangle s on any side
Inside(r, s) ==
    /\ s.min.x <= r.min.x /\ r.min.x <= r.max.x /\ r.max.x <= s.max.x
    /\ s.min.y <= r.min.y /\ r.min.y <= r.max.y /\ r.max.y <= s.max.y

\* C20: for every source rectangle and box that are not empty, and every
\* alignment and vertical alignment, the rectangle positionImage returns
\* lies inside the box: it exceeds the box on no side.
C20_ImageInBox ==
    (ipc = "done" /\ ~Empty(isrc) /\ ~Empty(ibox)) => Inside(irect, ibox)

\* C20 witness: an image has been centred in a box that is wider than the
\* scaled image and does not start at the origin
C20_Witness ==
    /\ ipc = "done" /\ ~Empty(isrc) /\ ~Empty(ibox)
    /\ ialign = "Center"
    /\ ibox.min.x > 0
    /\ irect.min.x > ibox.min.x
    /\ irect.max.x < ibox.max.x
    /\ Dy(irect) = Dy(ibox)

-----------------------------------------------------------------------------
(* Properties of ParsePresentation and the event loop, checked under
   SpecPresent *)

\* the indices of the slides of the presentation, counted from 0
SlideIndices == 0..(Len(pres) - 1)

\* C39: in the event loop the index is never below 0 and never above the
\* number of slides less one; a previous-slide key received at index 0 and a
\* next-slide key received at the last index leave the index as it was; the
\* slides that are drawn are slides of the presentation, the one at the index
\* among them, and no slide is drawn by the iteration that handles the quit
\* key, the quit event or the close of the window, which is the last one.
C39_IndexInRange ==
    ppc \in {"loop", "panic"} =>
        /\ ppc = "loop"
        /\ index \in SlideIndices
        /\ (ev \in {"K_UP", "K_LEFT"} /\ indexWas = 0) => index = 0
        /\ (ev \in {"K_DOWN", "K_RIGHT"} /\ indexWas = Len(pres) - 1) =>
              index = indexWas
        /\ shown \subseteq SlideIndices
        /\ shown # {} => index \in shown
        /\ ~running => (shown = {} /\ ~ENABLED HandleEvent)

\* C39 witness: in a presentation of more than one slide, a next-slide key
\* has been received at the last index, and the index is as it was
C39_Witness ==
    /\ ppc = "loop"
    /\ Len(pres) >= 2
    /\ ev \in {"K_DOWN", "K_RIGHT"}
    /\ indexWas = Len(pres) - 1
    /\ index = indexWas

\* the line i of the file as the switch tests it
Scanned(i) == TrimRightSpace(deck[i])

\* the lines of the file that are separators
SeparatorLines == { i \in 1..Len(deck) : Scanned(i) = Separator }

\* the j-th separator of the file
NthSeparator(j) ==
    CHOOSE i \in SeparatorLines :
        Cardinality({ x \in SeparatorLines : x <= i }) = j

\* the first and the last line of the k-th slide: the slide is started at the
\* start of the file or after a separator, and ends before the next one
FirstLine(k) == IF k = 1 THEN 1 ELSE NthSeparator(k - 1) + 1
LastLine(k) ==
    IF k <= Cardinality(SeparatorLines) THEN NthSeparator(k) - 1 ELSE Len(deck)

\* the line is a %set option, or an option of a slide
IsSetOption(l) == HasPrefix(l, SetPrefix)
IsSlideOption(l) == HasPrefix(l, OptPrefix) /\ ~IsSetOption(l) /\ l # ColumnBreak

\* the configuration c after the options of one kind (%set options, or
\* options of a slide) of the lines lo..hi of the file, in their order
RECURSIVE WithOptions(_, _, _, _)
WithOptions(c, lo, hi, set) ==
    IF lo > hi THEN c
    ELSE LET l == Scanned(lo)
             d == IF set /\ IsSetOption(l)
                  THEN AddAttribute(c, TrimLeftSpace(Drop(l, 4))).conf
                  ELSE IF ~set /\ IsSlideOption(l)
                  THEN AddAttribute(c, TrimLeftSpace(Drop(l, 1))).conf
                  ELSE c
         IN  WithOptions(d, lo + 1, hi, set)

\* the global configuration when the k-th slide is started: the default one
\* with the %set options of the lines before the slide
GlobalAt(k) == WithOptions(defaultConf, 1, FirstLine(k) - 1, TRUE)

\* C40: the configuration of every slide is the global configuration as it
\* is when the slide is started (the default one with the %set options that
\* come before the slide) with the per-slide options of the slide itself: no
\* per-slide option of another slide and no %set option that comes after the
\* start of the slide is in it. The presentation has one slide more than the
\* file has separators.
C40_SlideOptionsLocal ==
    /\ \A k \in 1..Len(pres) :
          pres[k].Conf = WithOptions(GlobalAt(k), FirstLine(k), LastLine(k), FALSE)
    /\ ppc = "loop" => Len(pres) = Cardinality(SeparatorLines) + 1

\* C40 witness: a file has been parsed whose first slide has the option
\* align=right and, after it, a %set option align=left: the first slide is
\* aligned right and the second one left
C40_Witness ==
    /\ ppc = "loop"
    /\ Len(pres) = 2
    /\ pres[1].Conf.Align = "Right"
    /\ pres[2].Conf.Align = "Left"

=============================================================================
